---- MODULE Spec2Model ----
(***************************************************************************)
(* MidiTok tokenizers as state machines.                                   *)
(*                                                                         *)
(*   ml, fifo : MIDILike._tokens_to_midi, the FIFO note-on/note-off        *)
(*              decoder (src/miditok/tokenizations/midi_like.py)           *)
(*   te       : MIDILike._add_time_events, Rest/TimeShift insertion        *)
(*   rt       : encoding then decoding two overlapping notes               *)
(*   sd       : Structured._tokens_to_midi, the fixed-pattern decoder      *)
(*              (src/miditok/tokenizations/structured.py)                  *)
(*   se       : Structured._midi_to_tokens, the fixed-pattern encoder      *)
(*   er       : MIDILike.tokens_errors, the validity score                 *)
(*   mm       : MMM, the multi-track wrapper: encoding and splitting       *)
(*              (src/miditok/tokenizations/mmm.py)                         *)
(*   ei       : MMM.encode_token_ids                                       *)
(*   tk       : the MMM tokenizer object under encode calls, and its       *)
(*              configuration                                              *)
(*   pd       : MIDILike._tokens_to_midi on tempo, time signature and      *)
(*              pedal tokens                                               *)
(*   me       : MMM._tokens_errors                                         *)
(*   vo       : the vocabularies of MMM and of its base tokenizer          *)
(*   sp       : split_seq_in_subsequences and                              *)
(*              split_dataset_to_subsequences                              *)
(*              (src/miditok/pytorch_data/split_midi_utils.py)             *)
(*   nd       : split_midi_per_note_density                                *)
(*   tg       : MIDILike._create_token_types_graph                         *)
(*                                                                         *)
(* A token "Type_Value" is the record [type, value]; value is the tuple of *)
(* the integers its text holds between dots: "60" is <<60>>, the duration  *)
(* "1.0.2" is <<1, 0, 2>>.  int(text) succeeds on one-field values only.   *)
(***************************************************************************)
EXTENDS Integers, Sequences, FiniteSets, TLC

VARIABLES ml, fifo, te, rt, sd, se, er, mm, ei, tk, pd, me, vo, sp, nd, tg

vars == <<ml, fifo, te, rt, sd, se, er, mm, ei, tk, pd, me, vo, sp, nd, tg>>

-----------------------------------------------------------------------------
(* Bounds of the model *)

\* tokens decoded in one call, all its sequences together
MaxTokens == 5

\* sequences given to one decode call when tracks are kept independent
MaxSeqs == 2

-----------------------------------------------------------------------------
(* Configuration and values shared by the tokenizers *)

None == <<>>

\* TokenizerConfig: pitch_range, programs, velocities, the (beat, pos, res)
\* duration and rest tables, and the score's time division.
config ==
  [ pitch_range   |-> <<60, 61>>,
    programs      |-> <<0, 1>>,
    velocities    |-> <<64, 100>>,
    durations     |-> << <<0, 1, 2>>, <<1, 0, 2>> >>,
    rests         |-> << <<1, 0, 2>> >>,
    time_division |-> 2 ]

Range(s) == { s[i] : i \in DOMAIN s }

\* range(a, b) of Python
PyRange(a, b) == a .. (b - 1)

\* pitches of the vocabulary: range(*config.pitch_range)
VocabPitches == PyRange(config.pitch_range[1], config.pitch_range[2])

\* keys of one program's active_notes map: range(pitch_range[0], pitch_range[1] + 1)
ActivePitches == PyRange(config.pitch_range[1], config.pitch_range[2] + 1)

Tok(type, value) == [type |-> type, value |-> value]

\* the cell past the end of a sequence
NoToken == Tok("", None)

\* int(text): defined on a text holding one integer and nothing else
IntParses(value) == Len(value) = 1

ParseInt(value) == value[1]

\* _token_duration_to_ticks: (beat * res + pos) * time_division // res
TokenDurationToTicks(value, time_division) ==
  ((value[1] * value[3] + value[2]) * time_division) \div value[3]

\* initial value of previous_pitch_onset / previous_pitch_chord
NoPitch == -128

Note(start, duration, pitch, velocity) ==
  [start |-> start, duration |-> duration, pitch |-> pitch, velocity |-> velocity]

\* Track(program=0 if prog == -1 else prog, is_drum=prog == -1), with .notes
Track(prog) ==
  [program |-> IF prog = -1 THEN 0 ELSE prog, is_drum |-> (prog = -1), notes |-> <<>>]

-----------------------------------------------------------------------------
(* MIDILike._tokens_to_midi                                                *)
(*                                                                         *)
(* ml holds the call's parameters (one_token_stream, use_programs,         *)
(* max_duration, programs, nseq = len(tokens)), the loop positions         *)
(* (pc, si), the cells seq[ti] and seq[ti + 1] of the sequence being       *)
(* decoded (token, next_token; the loop reads no other cell), the tracking *)
(* variables and the results.  raised names the exception that ended the   *)
(* call, "" when none did.                                                 *)

\* active_notes as built at the start of the call, and one program's reset
EmptyQueues == [pi \in ActivePitches |-> <<>>]

EmptyActiveNotes == [prog \in Range(config.programs) |-> EmptyQueues]

\* max_duration after its conversion to ticks (read only when one is set)
MaxDurationTicks(d) == TokenDurationToTicks(d.max_duration, config.time_division)

Raise(d, error) == [d EXCEPT !.raised = error]

\* check_inst: create the program's track on first use
CheckInst(tracks, prog) ==
  IF \E i \in DOMAIN tracks : tracks[i].key = prog
    THEN tracks
    ELSE Append(tracks, [key |-> prog, track |-> Track(prog)])

TrackIndex(tracks, prog) == CHOOSE i \in DOMAIN tracks : tracks[i].key = prog

\* tracks[prog].notes.append(note) after check_inst(prog), or
\* current_instrument.notes.append(note)
AddNote(d, prog, new_note) ==
  IF d.one_token_stream
    THEN LET tracks == CheckInst(d.tracks, prog)
             i == TrackIndex(tracks, prog)
         IN  [d EXCEPT !.tracks = [tracks EXCEPT ![i].track.notes = Append(@, new_note)]]
    ELSE [d EXCEPT !.current_instrument.notes = Append(@, new_note)]

RECURSIVE AddNotes(_, _, _)
AddNotes(d, prog, notes) ==
  IF notes = <<>> THEN d
  ELSE AddNotes(AddNote(d, prog, Head(notes)), prog, Tail(notes))

\* the notes clear_active_notes makes of one program's queues, pitch by pitch
RECURSIVE QueuedNotes(_, _, _)
QueuedNotes(queues, pitch, max_ticks) ==
  IF pitch \notin DOMAIN queues THEN <<>>
  ELSE [i \in 1 .. Len(queues[pitch]) |->
          Note(queues[pitch][i].tick, max_ticks, pitch, queues[pitch][i].vel)]
       \o QueuedNotes(queues, pitch + 1, max_ticks)

RECURSIVE ClearPrograms(_, _)
ClearPrograms(d, progs) ==
  IF progs = <<>> THEN d
  ELSE ClearPrograms(
         AddNotes(d, Head(progs),
                  QueuedNotes(d.active_notes[Head(progs)], config.pitch_range[1],
                              MaxDurationTicks(d))),
         Tail(progs))

\* clear_active_notes
ClearActiveNotes(d) ==
  IF d.max_duration = None THEN d
  ELSE IF d.one_token_stream THEN ClearPrograms(d, config.programs)
  ELSE AddNotes(d, d.current_instrument.program,
                QueuedNotes(d.active_notes[d.current_instrument.program],
                            config.pitch_range[1], MaxDurationTicks(d)))

\* the pitch a note token designates
NotePitch(d, tok_type, tok_val) ==
  IF tok_type = "PitchIntervalTime"
    THEN d.previous_pitch_onset[d.current_program] + ParseInt(tok_val)
  ELSE IF tok_type = "PitchIntervalChord"
    THEN d.previous_pitch_chord[d.current_program] + ParseInt(tok_val)
  ELSE ParseInt(tok_val)

\* previous_pitch_onset / previous_pitch_chord, updated before the queue is touched
UpdatePreviousPitch(d, tok_type, pitch) ==
  IF tok_type \in {"PitchIntervalTime", "NoteOn"}
    THEN [d EXCEPT !.previous_pitch_onset[d.current_program] = pitch,
                   !.previous_pitch_chord[d.current_program] = pitch]
  ELSE IF tok_type = "PitchIntervalChord"
    THEN [d EXCEPT !.previous_pitch_chord[d.current_program] = pitch]
  ELSE d

\* a note-on-class token: queue (current_tick, int(next token's value))
QueueNoteOn(d, pitch, has_next, next_token) ==
  IF ~has_next THEN d
  ELSE IF ~IntParses(next_token.value) THEN Raise(d, "ValueError")
  ELSE IF pitch \notin DOMAIN d.active_notes[d.current_program] THEN Raise(d, "KeyError")
  ELSE [d EXCEPT !.active_notes[d.current_program][pitch] =
                    Append(@, [tick |-> d.current_tick, vel |-> ParseInt(next_token.value)])]

\* the duration given to a note closed by a NoteOff
NoteOffDuration(d, note_onset_tick) ==
  LET duration == d.current_tick - note_onset_tick
  IN  IF d.max_duration # None /\ duration > MaxDurationTicks(d)
        THEN MaxDurationTicks(d)
        ELSE duration

\* NoteOff with the LIFO end of the queue popped: a mutant of CreateNoteOff
CreateNoteOff_PopLast(d, pitch) ==
  LET queue == d.active_notes[d.current_program][pitch]
  IN  IF Len(queue) > 0
        THEN LET on == queue[Len(queue)]
             IN  AddNote([d EXCEPT !.active_notes[d.current_program][pitch] =
                                      SubSeq(queue, 1, Len(queue) - 1)],
                         d.current_program,
                         Note(on.tick, NoteOffDuration(d, on.tick), pitch, on.vel))
        ELSE d

\* NoteOff that reads the oldest onset without popping it: a mutant of CreateNoteOff
CreateNoteOff_NoPop(d, pitch) ==
  LET queue == d.active_notes[d.current_program][pitch]
  IN  IF Len(queue) > 0
        THEN AddNote(d, d.current_program,
                     Note(queue[1].tick, NoteOffDuration(d, queue[1].tick), pitch,
                          queue[1].vel))
        ELSE d

\* NoteOff that pops whatever the queue holds (pop(0) of an empty list raises
\* IndexError): a mutant of CreateNoteOff
CreateNoteOff_NoGuard(d, pitch) ==
  LET queue == d.active_notes[d.current_program][pitch]
  IN  IF Len(queue) >= 1
        THEN AddNote([d EXCEPT !.active_notes[d.current_program][pitch] = Tail(queue)],
                     d.current_program,
                     Note(queue[1].tick, NoteOffDuration(d, queue[1].tick), pitch,
                          queue[1].vel))
        ELSE Raise(d, "IndexError")

\* a NoteOff token: pop(0) and create the note, or do nothing on an empty queue
CreateNoteOff(d, pitch) ==
  LET queue == d.active_notes[d.current_program][pitch]
  IN  IF Len(queue) > 0
        THEN LET on == Head(queue)
             IN  AddNote([d EXCEPT !.active_notes[d.current_program][pitch] = Tail(queue)],
                         d.current_program,
                         Note(on.tick, NoteOffDuration(d, on.tick), pitch, on.vel))
        ELSE d

NoteTokenTypes == {"NoteOn", "NoteOff", "PitchIntervalTime", "PitchIntervalChord"}

\* one iteration of the decoding loop on seq[ti] = token, with
\* has_next <=> ti + 1 < len(seq) and next_token = seq[ti + 1]
DecodeToken(d, token, has_next, next_token) ==
  LET tok_type == token.type
      tok_val == token.value
  IN  IF tok_type \in {"TimeShift", "Rest"}
        THEN [d EXCEPT !.current_tick =
                          @ + TokenDurationToTicks(tok_val, config.time_division)]
      ELSE IF tok_type \in NoteTokenTypes
        THEN LET pitch == NotePitch(d, tok_type, tok_val)
                 d1 == UpdatePreviousPitch(d, tok_type, pitch)
             IN  IF tok_type # "NoteOff"
                   THEN QueueNoteOn(d1, pitch, has_next, next_token)
                   ELSE CreateNoteOff(d1, pitch)
      ELSE IF tok_type = "Program"
        THEN [d EXCEPT !.current_program = ParseInt(tok_val)]
      ELSE d

\* the tracking variables set at the top of the loop over sequences;
\* programs[si] is (program, is_drum)
StartSequence(d) ==
  LET hint == ~d.one_token_stream /\ d.programs # None
      program == IF hint THEN d.programs[d.si + 1][1] ELSE 0
      is_drum == IF hint THEN d.programs[d.si + 1][2] ELSE FALSE
  IN  [d EXCEPT !.current_tick = 0,
                !.current_program = program,
                !.previous_pitch_onset = [p \in Range(config.programs) |-> NoPitch],
                !.previous_pitch_chord = [p \in Range(config.programs) |-> NoPitch],
                !.current_instrument =
                   IF d.one_token_stream THEN @
                   ELSE [program |-> program, is_drum |-> is_drum, notes |-> <<>>]]

\* after a sequence, tracks kept independent: the track joins the score, its
\* program's open notes are handled and that program's queues are reset
EndSequence(d) ==
  IF d.one_token_stream THEN d
  ELSE LET d1 == ClearActiveNotes(d)
       IN  [d1 EXCEPT !.midi_tracks = Append(@, d1.current_instrument),
                      !.active_notes[d1.current_instrument.program] = EmptyQueues]

\* after the last sequence
FinishDecoding(d) ==
  IF d.one_token_stream
    THEN LET d1 == ClearActiveNotes(d)
         IN  [d1 EXCEPT !.midi_tracks = [i \in DOMAIN d1.tracks |-> d1.tracks[i].track]]
    ELSE d

\* the tokens of the MIDILike vocabulary the decoded sequences are made of
MLTokens(use_programs) ==
  { Tok("NoteOn", <<p>>) : p \in VocabPitches }
    \cup { Tok("NoteOff", <<p>>) : p \in VocabPitches }
    \cup { Tok("Velocity", <<v>>) : v \in Range(config.velocities) }
    \cup { Tok("TimeShift", config.durations[2]) }
    \cup { Tok("PitchIntervalTime", <<1>>), Tok("PitchIntervalChord", <<1>>) }
    \cup ( IF use_programs
             THEN { Tok("Program", <<p>>) : p \in Range(config.programs) }
             ELSE {} )

\* the state of a call before its first sequence
MLCall(one_token_stream, use_programs, max_duration, nseq, programs) ==
  [ one_token_stream |-> one_token_stream, use_programs |-> use_programs,
    max_duration |-> max_duration, nseq |-> nseq, programs |-> programs,
    pc |-> "seq_start", si |-> 0, ntokens |-> 0, token |-> NoToken, next_token |-> NoToken,
    current_tick |-> 0, current_program |-> 0,
    previous_pitch_onset |-> [p \in Range(config.programs) |-> NoPitch],
    previous_pitch_chord |-> [p \in Range(config.programs) |-> NoPitch],
    active_notes |-> EmptyActiveNotes,
    tracks |-> <<>>, current_instrument |-> None, midi_tracks |-> <<>>,
    raised |-> "" ]

\* the calls decoded: one sequence of all tracks (use_programs with
\* one_token_stream_for_programs), or one sequence per track, with or without
\* Program tokens and with or without the programs of the tracks
MLCalls ==
  { MLCall(TRUE, TRUE, md, 1, None) : md \in {None, config.durations[1]} }
    \cup UNION { { MLCall(FALSE, up, md, n, pr) :
                     up \in BOOLEAN, md \in {None, config.durations[1]},
                     pr \in {None, [i \in 1 .. n |->
                                      <<config.programs[1 + (i % 2)], FALSE>>]} } :
                 n \in 1 .. MaxSeqs }

Idle == [pc |-> "idle"]

\* History of the decoding: the onsets queued (log) and the number of onsets
\* closed by a NoteOff (closed) for each program and pitch, since the program's
\* queues were last created, and what the last decoded token did (last)
NoFifo ==
  [ last |-> "",
    log |-> [p \in Range(config.programs) |-> [pi \in ActivePitches |-> <<>>]],
    closed |-> [p \in Range(config.programs) |-> [pi \in ActivePitches |-> 0]] ]

\* the history after token was decoded from state before into state d
FifoAfterToken(f, before, token, d) ==
  LET after == d.active_notes
  IN  [ last |-> IF d.raised # "" THEN "raised"
                 ELSE IF token.type = "NoteOff"
                   THEN (IF after = before THEN "noteoff_ignored" ELSE "noteoff_closed")
                 ELSE IF token.type \in NoteTokenTypes
                   THEN (IF after = before THEN "noteon_dropped" ELSE "noteon_queued")
                 ELSE "other",
        log |-> [p \in Range(config.programs) |-> [pi \in ActivePitches |->
           IF Len(after[p][pi]) > Len(before[p][pi])
             THEN Append(f.log[p][pi], after[p][pi][Len(after[p][pi])])
             ELSE f.log[p][pi]]],
        closed |-> [p \in Range(config.programs) |-> [pi \in ActivePitches |->
           IF Len(after[p][pi]) < Len(before[p][pi])
             THEN f.closed[p][pi] + 1
             ELSE f.closed[p][pi]]] ]

\* the history after the queues of program were created anew
FifoAfterReset(f, program) ==
  [ last |-> f.last,
    log |-> [f.log EXCEPT ![program] = [pi \in ActivePitches |-> <<>>]],
    closed |-> [f.closed EXCEPT ![program] = [pi \in ActivePitches |-> 0]] ]

MLInit ==
  /\ ml \in MLCalls
  /\ fifo = NoFifo
  /\ te = Idle /\ rt = Idle /\ sd = Idle
  /\ se = Idle /\ er = Idle /\ mm = Idle
  /\ ei = Idle /\ tk = Idle /\ pd = Idle /\ me = Idle
  /\ vo = Idle /\ sp = Idle /\ nd = Idle /\ tg = Idle

\* the first two cells of the next sequence of tokens
MLStartSeq ==
  /\ ml.pc = "seq_start"
  /\ \E token \in MLTokens(ml.use_programs) \cup {NoToken} :
       \E next_token \in MLTokens(ml.use_programs) \cup {NoToken} :
         /\ token = NoToken => next_token = NoToken
         /\ ml.ntokens + 2 > MaxTokens => next_token = NoToken
         /\ ml.ntokens + 1 > MaxTokens => token = NoToken
         /\ ml' = [StartSequence(ml) EXCEPT
                     !.token = token, !.next_token = next_token,
                     !.pc = IF token = NoToken THEN "seq_end" ELSE "loop"]
  /\ UNCHANGED <<fifo, te, rt, sd, se, er, mm, ei, tk, pd, me, vo, sp, nd, tg>>

\* one iteration of the loop over the sequence; the cell after next comes into view
MLDecodeToken ==
  /\ ml.pc = "loop"
  /\ LET d == DecodeToken(ml, ml.token, ml.next_token # NoToken, ml.next_token)
     IN  /\ IF d.raised # ""
              THEN ml' = [d EXCEPT !.pc = "raised"]
              ELSE \E after_next \in MLTokens(ml.use_programs) \cup {NoToken} :
                     /\ (ml.next_token = NoToken \/ ml.ntokens + 3 > MaxTokens)
                          => after_next = NoToken
                     /\ ml' = [d EXCEPT !.ntokens = @ + 1, !.token = ml.next_token,
                                        !.next_token = after_next,
                                        !.pc = IF ml.next_token = NoToken
                                                 THEN "seq_end" ELSE "loop"]
         /\ fifo' = FifoAfterToken(fifo, ml.active_notes, ml.token, d)
  /\ UNCHANGED <<te, rt, sd, se, er, mm, ei, tk, pd, me, vo, sp, nd, tg>>

MLEndSeq ==
  /\ ml.pc = "seq_end"
  /\ ml' = [EndSequence(ml) EXCEPT
              !.si = @ + 1,
              !.pc = IF ml.si + 1 < ml.nseq THEN "seq_start" ELSE "finish"]
  /\ fifo' = IF ml.one_token_stream THEN fifo
             ELSE FifoAfterReset(fifo, ml.current_instrument.program)
  /\ UNCHANGED <<te, rt, sd, se, er, mm, ei, tk, pd, me, vo, sp, nd, tg>>

MLFinish ==
  /\ ml.pc = "finish"
  /\ ml' = [FinishDecoding(ml) EXCEPT !.pc = "done"]
  /\ UNCHANGED <<fifo, te, rt, sd, se, er, mm, ei, tk, pd, me, vo, sp, nd, tg>>

MLNext == MLStartSeq \/ MLDecodeToken \/ MLEndSeq \/ MLFinish

SpecDecode == MLInit /\ [][MLNext]_vars

-----------------------------------------------------------------------------
(* Properties of MIDILike decoding *)

RECURSIVE CountNotes(_)
CountNotes(tracks) ==
  IF tracks = <<>> THEN 0 ELSE Len(Head(tracks).notes) + CountNotes(Tail(tracks))

\* number of notes created so far by the call
Emitted(d) ==
  IF d.one_token_stream
    THEN CountNotes([i \in DOMAIN d.tracks |-> d.tracks[i].track])
    ELSE CountNotes(d.midi_tracks)
           + (IF d.pc \in {"loop", "seq_end", "raised"}
                THEN Len(d.current_instrument.notes) ELSE 0)

\* the notes of the track that receives the notes of program prog
OutNotes(d, prog) ==
  IF d.one_token_stream
    THEN IF \E i \in DOMAIN d.tracks : d.tracks[i].key = prog
           THEN d.tracks[TrackIndex(d.tracks, prog)].track.notes
           ELSE <<>>
    ELSE d.current_instrument.notes

RECURSIVE CountQueued(_, _)
CountQueued(active_notes, cells) ==
  IF cells = {} THEN 0
  ELSE LET c == CHOOSE x \in cells : TRUE
       IN  Len(active_notes[c[1]][c[2]]) + CountQueued(active_notes, cells \ {c})

\* number of onsets waiting in the queues of all programs
Queued(d) == CountQueued(d.active_notes, Range(config.programs) \X ActivePitches)

\* the loop is about to decode a NoteOff whose queue holds an onset
MLNoteOffAccepted ==
  /\ ml.pc = "loop"
  /\ ml.token.type = "NoteOff"
  /\ Len(ml.active_notes[ml.current_program][ParseInt(ml.token.value)]) > 0

\* every queue holds, in order, the onsets logged and not yet closed
QueuesFollowLog ==
  \A p \in Range(config.programs) : \A pi \in ActivePitches :
    /\ fifo.closed[p][pi] <= Len(fifo.log[p][pi])
    /\ ml.active_notes[p][pi] =
         SubSeq(fifo.log[p][pi], fifo.closed[p][pi] + 1, Len(fifo.log[p][pi]))

\* the k-th accepted NoteOff of (program, pitch) creates one note, made of the
\* k-th onset queued, with the duration given
KthNoteOffClosesKthOnset(clamped) ==
  MLNoteOffAccepted =>
    LET p == ml.current_program
        pi == ParseInt(ml.token.value)
        on == fifo.log[p][pi][fifo.closed[p][pi] + 1]
        elapsed == ml.current_tick - on.tick
        duration == IF clamped /\ ml.max_duration # None /\ elapsed > MaxDurationTicks(ml)
                      THEN MaxDurationTicks(ml) ELSE elapsed
    IN  /\ OutNotes(ml', p) = Append(OutNotes(ml, p), Note(on.tick, duration, pi, on.vel))
        /\ Emitted(ml') = Emitted(ml) + 1
        /\ Queued(ml') = Queued(ml) - 1

\* a token creates a note only when it is an accepted NoteOff
OnlyNoteOffCreates ==
  (ml.pc = "loop" /\ ~MLNoteOffAccepted) => Emitted(ml') = Emitted(ml)

C2_NoteOnWithoutVelocityDropped ==
  [][ ( /\ ml.pc = "loop"
        /\ ml.token.type \in NoteTokenTypes \ {"NoteOff"}
        /\ ml.next_token.type # "Velocity" )
      => ml'.active_notes = ml.active_notes ]_vars

\* the fields of the decoder that a token may change
Decoded(d) ==
  <<d.current_tick, d.current_program, d.active_notes, d.previous_pitch_onset,
    d.previous_pitch_chord, d.tracks, d.current_instrument, d.midi_tracks, d.raised>>

\* C3: a NoteOff for a (program, pitch) with no queued onset is ignored: it
\* creates no note, raises no error, and leaves the tick cursor, the current
\* program and all the queues (and every other decoding variable) unchanged.
C3_OrphanNoteOffIgnored ==
  [][ ( /\ ml.pc = "loop"
        /\ ml.token.type = "NoteOff"
        /\ ml.active_notes[ml.current_program][ParseInt(ml.token.value)] = <<>> )
      => /\ Decoded(ml') = Decoded(ml)
         /\ ml'.raised = ""
         /\ Emitted(ml') = Emitted(ml) ]_vars

\* a NoteOff was just ignored while another program holds an open onset
C3_Witness ==
  /\ fifo.last = "noteoff_ignored"
  /\ Queued(ml) > 0

\* the notes the claim C4 expects of the onsets still queued
RECURSIVE ExpectedFlush(_, _, _)
ExpectedFlush(active_notes, cells, max_ticks) ==
  IF cells = {} THEN {}
  ELSE LET c == CHOOSE x \in cells : TRUE
       IN  { Note(active_notes[c[1]][c[2]][i].tick, max_ticks, c[2],
                  active_notes[c[1]][c[2]][i].vel) :
               i \in 1 .. Len(active_notes[c[1]][c[2]]) }
             \cup ExpectedFlush(active_notes, cells \ {c}, max_ticks)

\* the notes of all tracks of the call
AllNotes(d) ==
  LET ts == IF d.one_token_stream THEN [i \in DOMAIN d.tracks |-> d.tracks[i].track]
            ELSE d.midi_tracks
  IN  UNION { Range(ts[i].notes) : i \in DOMAIN ts }

\* C4 as stated: where a sequence ends (one stream: the end of the call; one
\* sequence per track: the end of each sequence) every onset still queued gives
\* a note of the maximum duration when one is configured, and is dropped, no
\* note created, when none is.
C4_OpenNotesFlushedOrDropped ==
  [][ ( \/ (ml.pc = "seq_end" /\ ~ml.one_token_stream)
        \/ (ml.pc = "finish" /\ ml.one_token_stream) )
      => IF ml.max_duration # None
           THEN /\ Emitted(ml') = Emitted(ml) + Queued(ml)
                /\ ExpectedFlush(ml.active_notes,
                                 Range(config.programs) \X ActivePitches,
                                 MaxDurationTicks(ml)) \subseteq AllNotes(ml')
           ELSE /\ Emitted(ml') = Emitted(ml)
                /\ (ml'.pc = "done" \/ Queued(ml') = 0) ]_vars

\* C5 as stated: with one sequence per track, the queues of every program are
\* empty when the decoding of a sequence starts.
C5_QueuesEmptyAtSequenceStart ==
  ml.pc = "seq_start" => ml.active_notes = EmptyActiveNotes

\* C6 as stated: decoding a finite sequence of vocabulary tokens never raises.
C6_DecodeNeverRaises ==
  ml.pc # "idle" => ml.raised = ""

\* the tick cursor does not go back while the tokens of one sequence are decoded
TickNeverDecreasesInSequence ==
  (ml.pc = "loop" /\ ml'.pc \in {"loop", "seq_end", "raised"})
    => ml'.current_tick >= ml.current_tick

\* every note of the call has a duration of 0 or more, and of no more than the
\* maximum duration when one is configured
NoteDurationsWithinBounds ==
  ml.pc # "idle" =>
    \A n \in AllNotes(ml) :
      /\ n.duration >= 0
      /\ ml.max_duration # None => n.duration <= MaxDurationTicks(ml)

\* C38 as stated: in MIDILike decoding the tick cursor never decreases within
\* a sequence, so every note created has a duration >= 0, and a duration <= the
\* maximum duration when one is configured.
C38_DurationsWithinBounds ==
  /\ []NoteDurationsWithinBounds
  /\ [][TickNeverDecreasesInSequence]_vars

-----------------------------------------------------------------------------
(* MIDILike._add_time_events                                               *)
(*                                                                         *)
(* te holds use_rests, the events read so far (events), the event of the   *)
(* current iteration (event), the end of the note still sounding in the    *)
(* input (open_end, -1 when none), and the loop's all_events,              *)
(* previous_tick and previous_note_end.                                    *)

\* ticks of the last event of an input list
MaxTick == 3

\* events of an input list
MaxEvents == 4

\* Event(type, value, time, desc); desc is a note's end tick for NoteOn and
\* the ticks covered for Rest and TimeShift
Event(type, value, time, desc) ==
  [type |-> type, value |-> value, time |-> time, desc |-> desc]

NoEvent == Event("", None, 0, 0)

BinTicks(value) == TokenDurationToTicks(value, config.time_division)

RECURSIVE SumTicks(_)
SumTicks(values) ==
  IF values = <<>> THEN 0 ELSE BinTicks(values[1]) + SumTicks(Tail(values))

\* _ticks_to_duration_tokens: the largest bin that fits, then the largest
\* that fits what is left, until less than the smallest bin is left
RECURSIVE TicksToDurationTokens(_, _)
TicksToDurationTokens(duration, bins) ==
  LET fit == { i \in DOMAIN bins : BinTicks(bins[i]) <= duration }
  IN  IF fit = {} THEN <<>>
      ELSE LET index == CHOOSE i \in fit :
                          \A j \in fit : BinTicks(bins[j]) <= BinTicks(bins[i])
           IN  <<bins[index]>>
                 \o TicksToDurationTokens(duration - BinTicks(bins[index]), bins)

\* self._min_rest: ticks of the smallest rest
MinRest ==
  LET ticks == { BinTicks(config.rests[i]) : i \in DOMAIN config.rests }
  IN  CHOOSE t \in ticks : \A u \in ticks : t <= u

\* the Rest or TimeShift events of values, the first at tick start
TimeEvents(type, values, start, desc) ==
  [ i \in 1 .. Len(values) |->
      Event(type, values[i], start + SumTicks(SubSeq(values, 1, i - 1)), desc) ]

Max(a, b) == IF a >= b THEN a ELSE b

RestCondition_IgnoreUseRests(s, event) ==
  event.time - s.previous_note_end >= MinRest

\* the test that opens the Rest branch
RestCondition(s, event) ==
  s.use_rests /\ event.time - s.previous_note_end >= MinRest

\* the end of the loop body: the latest end of what was read
UpdatePreviousNoteEnd(previous_note_end, event) ==
  IF event.type \in {"NoteOn", "PitchIntervalTime", "PitchIntervalChord"}
    THEN Max(previous_note_end, event.desc)
  ELSE IF event.type \in {"Program", "Tempo", "Pedal", "PedalOff", "PitchBend", "Chord"}
    THEN Max(previous_note_end, event.time)
  ELSE previous_note_end

\* one iteration of the loop over events
AddTimeEvent(s, event) ==
  LET shift == event.time # s.previous_tick
      rest == shift /\ RestCondition(s, event)
      rest_tick == IF rest THEN s.previous_note_end ELSE s.previous_tick
      rest_values == IF rest
                       THEN TicksToDurationTokens(event.time - rest_tick, config.rests)
                       ELSE <<>>
      shift_tick == rest_tick + SumTicks(rest_values)
      time_shift == event.time - shift_tick
      shift_values == IF shift /\ event.time # shift_tick
                        THEN TicksToDurationTokens(time_shift, config.durations)
                        ELSE <<>>
  IN  [s EXCEPT
         !.all_events = @ \o TimeEvents("Rest", rest_values, rest_tick,
                                        event.time - rest_tick)
                          \o TimeEvents("TimeShift", shift_values, shift_tick, time_shift)
                          \o <<event>>,
         !.previous_tick = event.time,
         !.previous_note_end = UpdatePreviousNoteEnd(@, event)]

\* the tempo, time signature, pedal and pitch bend events of an input list
GlobalEvents(time) ==
  { Event("Tempo", <<120>>, time, 0), Event("TimeSig", <<4, 4>>, time, 0),
    Event("Pedal", <<0>>, time, 0), Event("PitchBend", <<0>>, time, 0) }

\* the ends of the notes starting at tick start: a note lasts one of the
\* durations of the table
NoteEnds(start) ==
  { start + BinTicks(config.durations[i]) : i \in DOMAIN config.durations }
    \cap (0 .. MaxTick)

\* the events that may follow last in a list sorted by time: a NoteOn is
\* followed by its Velocity, a sounding note by nothing later than its NoteOff
NextEvents(last, open_end) ==
  IF last.type = "NoteOn"
    THEN { Event("Velocity", <<config.velocities[1]>>, last.time, 0) }
    ELSE LET times == { t \in last.time .. MaxTick : open_end = -1 \/ t <= open_end }
         IN  UNION { GlobalEvents(t) : t \in times }
               \cup ( IF open_end = -1
                        THEN UNION { { Event("NoteOn", <<config.pitch_range[1]>>, t, e) :
                                         e \in NoteEnds(t) } : t \in times }
                        ELSE { Event("NoteOff", <<config.pitch_range[1]>>, open_end, 0) } )

\* the end of the note sounding after event
OpenEndAfter(open_end, event) ==
  IF event.type = "NoteOn" THEN event.desc
  ELSE IF event.type = "NoteOff" THEN -1
  ELSE open_end

\* the state of a call before the loop, event being events[0]
TECall(use_rests, event) ==
  [ pc |-> IF event = NoEvent THEN "return" ELSE "loop",
    use_rests |-> use_rests, events |-> <<>>, event |-> event, open_end |-> -1,
    all_events |-> <<>>, previous_tick |-> 0, previous_note_end |-> 0 ]

TEInit ==
  /\ te \in { TECall(use_rests, event) :
                use_rests \in BOOLEAN, event \in NextEvents(NoEvent, -1) \cup {NoEvent} }
  /\ ml = Idle /\ fifo = NoFifo /\ rt = Idle /\ sd = Idle
  /\ se = Idle /\ er = Idle /\ mm = Idle
  /\ ei = Idle /\ tk = Idle /\ pd = Idle /\ me = Idle
  /\ vo = Idle /\ sp = Idle /\ nd = Idle /\ tg = Idle

\* one iteration of the loop; the next event of the list comes into view
TEAddTimeEvent ==
  /\ te.pc = "loop"
  /\ LET open_end == OpenEndAfter(te.open_end, te.event)
     IN  \E next \in NextEvents(te.event, open_end) \cup {NoEvent} :
           /\ Len(te.events) + 2 > MaxEvents => next = NoEvent
           /\ te' = [AddTimeEvent(te, te.event) EXCEPT
                       !.events = Append(@, te.event), !.event = next,
                       !.open_end = open_end,
                       !.pc = IF next = NoEvent THEN "return" ELSE "loop"]
  /\ UNCHANGED <<ml, fifo, rt, sd, se, er, mm, ei, tk, pd, me, vo, sp, nd, tg>>

\* return all_events
TEReturn ==
  /\ te.pc = "return"
  /\ te' = [te EXCEPT !.pc = "done"]
  /\ UNCHANGED <<ml, fifo, rt, sd, se, er, mm, ei, tk, pd, me, vo, sp, nd, tg>>

TENext == TEAddTimeEvent \/ TEReturn

SpecTime == TEInit /\ [][TENext]_vars

-----------------------------------------------------------------------------
(* Properties of MIDILike._add_time_events *)

IsTimeEvent(event) == event.type \in {"Rest", "TimeShift"}

IsOriginalEvent(event) == ~IsTimeEvent(event)

EventValues(events) == [i \in DOMAIN events |-> events[i].value]

\* ticks of the Rest and TimeShift events of all_events before position j
TimeTicksBefore(all_events, j) ==
  SumTicks(EventValues(SelectSeq(SubSeq(all_events, 1, j - 1), IsTimeEvent)))

\* ticks that a run of TimeShift tokens covers exactly
Representable(ticks) ==
  SumTicks(TicksToDurationTokens(ticks, config.durations)) = ticks

\* every time and every note end of events is representable, and so is
\* every gap between two of them
GapsRepresentable(events) ==
  \A i \in DOMAIN events :
    /\ Representable(events[i].time)
    /\ events[i].type = "NoteOn" => Representable(events[i].desc)

\* C7: over a time-sorted event list whose gaps are representable, the ticks
\* of the Rest and TimeShift events inserted before each original event sum
\* to that event's time, and the original events are kept, in their order,
\* with nothing but Rest and TimeShift events inserted.
C7_TimeTokensSumToEventTime ==
  (te.pc # "idle" /\ GapsRepresentable(te.events)) =>
    /\ SelectSeq(te.all_events, IsOriginalEvent) = te.events
    /\ \A j \in DOMAIN te.all_events :
         IsOriginalEvent(te.all_events[j]) =>
           TimeTicksBefore(te.all_events, j) = te.all_events[j].time

\* the latest end of the notes of events, 0 before any note
RECURSIVE LatestNoteEnd(_)
LatestNoteEnd(events) ==
  IF events = <<>> THEN 0
  ELSE LET e == events[Len(events)]
           before == LatestNoteEnd(SubSeq(events, 1, Len(events) - 1))
       IN  IF e.type = "NoteOn" THEN Max(before, e.desc) ELSE before

\* the events an iteration inserted before its event
Inserted(before, after) ==
  SubSeq(after.all_events, Len(before.all_events) + 1, Len(after.all_events) - 1)

\* an iteration inserts Rest events only if long_gap holds of the gap between
\* its event's time and the latest note end; otherwise it inserts TimeShift
\* events only, which cover the ticks since the previous event
RestOnlyIf(long_gap(_)) ==
  te.pc = "loop" =>
    LET new == Inserted(te, te')
        gap == te.event.time - LatestNoteEnd(te.events)
        allowed == te.use_rests /\ long_gap(gap)
    IN  /\ (\E i \in DOMAIN new : new[i].type = "Rest") => allowed
        /\ ~allowed =>
             /\ \A i \in DOMAIN new : new[i].type = "TimeShift"
             /\ GapsRepresentable(Append(te.events, te.event)) =>
                  SumTicks(EventValues(new)) = te.event.time - te.previous_tick

AtLeastMinRest(gap) == gap >= MinRest

ExceedsMinRest(gap) == gap > MinRest

\* C8 (amended): Rest events are inserted before an event only if rests are
\* enabled and the gap between the event's time and the latest note end seen
\* so far is at least the minimum rest; in every other case only TimeShift
\* events are inserted for the gap.
C8_RestOnlyIfGapAtLeastMinRest == [][RestOnlyIf(AtLeastMinRest)]_vars

\* C8 (as stated): the same with a gap that exceeds the minimum rest.
C8_RestOnlyIfGapExceedsMinRest == [][RestOnlyIf(ExceedsMinRest)]_vars

\* a Rest of exactly the minimum rest was inserted after a note's end, and a
\* TimeShift was inserted before another event, rests being enabled
C8_Witness ==
  /\ te.pc # "idle" /\ te.use_rests
  /\ LatestNoteEnd(te.events) > 0
  /\ \E j \in DOMAIN te.all_events :
       /\ te.all_events[j].type = "Rest"
       /\ te.all_events[j].desc = MinRest
       /\ te.all_events[j].time = LatestNoteEnd(te.events)
  /\ \E j \in DOMAIN te.all_events :
       /\ te.all_events[j].type = "TimeShift"
       /\ te.all_events[j].time < LatestNoteEnd(te.events)

-----------------------------------------------------------------------------
(* Two notes of one pitch and one track, the second starting before the    *)
(* first ends, encoded by MIDILike and decoded again.                      *)
(*                                                                         *)
(* rt holds the notes, the events made of them (events), the loop of       *)
(* _add_time_events over them (i, all_events, previous_tick,               *)
(* previous_note_end), the tokens, and the decoding call d reading         *)
(* tokens[ti].  off_first tells which of the events of the tick where the  *)
(* first note ends and the second starts comes first in the sorted list.   *)

\* the end of the note before is cut at the start of the note after when the
\* two have the same pitch and overlap
FixOffsetsOverlappingNotes(notes) ==
  [ i \in DOMAIN notes |->
      IF /\ i + 1 \in DOMAIN notes
         /\ notes[i + 1].pitch = notes[i].pitch
         /\ notes[i].start + notes[i].duration > notes[i + 1].start
        THEN [notes[i] EXCEPT !.duration = notes[i + 1].start - notes[i].start]
        ELSE notes[i] ]

NoteOnEvents(note) ==
  << Event("NoteOn", <<note.pitch>>, note.start, note.start + note.duration),
     Event("Velocity", <<note.velocity>>, note.start, 0) >>

NoteOffEvent(note) ==
  Event("NoteOff", <<note.pitch>>, note.start + note.duration, 0)

\* the events of two notes, the first ending where the second starts, sorted
\* by time
CreateTrackEvents(notes, off_first) ==
  NoteOnEvents(notes[1])
    \o ( IF off_first
           THEN <<NoteOffEvent(notes[1])>> \o NoteOnEvents(notes[2])
           ELSE NoteOnEvents(notes[2]) \o <<NoteOffEvent(notes[1])>> )
    \o <<NoteOffEvent(notes[2])>>

\* the token "Type_Value" of an event
EventToken(event) == Tok(event.type, event.value)

\* the scores encoded: notes (s1, e1) and (s2, e2) with s1 < s2 < e1
OverlappingNotes ==
  { << Note(s1, e1 - s1, config.pitch_range[1], config.velocities[1]),
       Note(s2, e2 - s2, config.pitch_range[1], config.velocities[2]) >> :
      <<s1, e1, s2, e2>> \in
        { q \in (0 .. MaxTick) \X (0 .. MaxTick) \X (0 .. MaxTick) \X (0 .. MaxTick) :
            q[1] < q[3] /\ q[3] < q[2] /\ q[3] < q[4] } }

RTInit ==
  /\ rt \in { [ pc |-> "preprocess", use_rests |-> use_rests, off_first |-> off_first,
                notes |-> notes, events |-> <<>>, i |-> 1, all_events |-> <<>>,
                previous_tick |-> 0, previous_note_end |-> 0,
                tokens |-> <<>>, ti |-> 1,
                d |-> MLCall(FALSE, FALSE, None, 1, None) ] :
                use_rests \in BOOLEAN, off_first \in BOOLEAN,
                notes \in OverlappingNotes }
  /\ ml = Idle /\ fifo = NoFifo /\ te = Idle /\ sd = Idle
  /\ se = Idle /\ er = Idle /\ mm = Idle
  /\ ei = Idle /\ tk = Idle /\ pd = Idle /\ me = Idle
  /\ vo = Idle /\ sp = Idle /\ nd = Idle /\ tg = Idle

\* preprocessing of the score
RTPreprocess ==
  /\ rt.pc = "preprocess"
  /\ rt' = [rt EXCEPT !.notes = FixOffsetsOverlappingNotes(@), !.pc = "create_events"]
  /\ UNCHANGED <<ml, fifo, te, sd, se, er, mm, ei, tk, pd, me, vo, sp, nd, tg>>

RTCreateEvents ==
  /\ rt.pc = "create_events"
  /\ rt' = [rt EXCEPT !.events = CreateTrackEvents(rt.notes, rt.off_first),
                      !.pc = "add_time_events"]
  /\ UNCHANGED <<ml, fifo, te, sd, se, er, mm, ei, tk, pd, me, vo, sp, nd, tg>>

\* one iteration of the loop of _add_time_events
RTAddTimeEvent ==
  /\ rt.pc = "add_time_events"
  /\ rt.i <= Len(rt.events)
  /\ rt' = [AddTimeEvent(rt, rt.events[rt.i]) EXCEPT !.i = @ + 1]
  /\ UNCHANGED <<ml, fifo, te, sd, se, er, mm, ei, tk, pd, me, vo, sp, nd, tg>>

\* the events become the tokens, and the decoding of the tokens begins
RTTokens ==
  /\ rt.pc = "add_time_events"
  /\ rt.i > Len(rt.events)
  /\ rt' = [rt EXCEPT !.tokens = [j \in DOMAIN rt.all_events |->
                                    EventToken(rt.all_events[j])],
                      !.d = StartSequence(@),
                      !.pc = "decode"]
  /\ UNCHANGED <<ml, fifo, te, sd, se, er, mm, ei, tk, pd, me, vo, sp, nd, tg>>

\* one iteration of the decoding loop
RTDecodeToken ==
  /\ rt.pc = "decode"
  /\ rt.ti <= Len(rt.tokens)
  /\ LET has_next == rt.ti + 1 <= Len(rt.tokens)
         next_token == IF has_next THEN rt.tokens[rt.ti + 1] ELSE NoToken
     IN  rt' = [rt EXCEPT !.d = DecodeToken(@, rt.tokens[rt.ti], has_next, next_token),
                          !.ti = @ + 1]
  /\ UNCHANGED <<ml, fifo, te, sd, se, er, mm, ei, tk, pd, me, vo, sp, nd, tg>>

\* the end of the sequence and of the decoding
RTDecodeEnd ==
  /\ rt.pc = "decode"
  /\ rt.ti > Len(rt.tokens)
  /\ rt' = [rt EXCEPT !.d = FinishDecoding(EndSequence(@)), !.pc = "done"]
  /\ UNCHANGED <<ml, fifo, te, sd, se, er, mm, ei, tk, pd, me, vo, sp, nd, tg>>

RTNext ==
  \/ RTPreprocess \/ RTCreateEvents \/ RTAddTimeEvent
  \/ RTTokens \/ RTDecodeToken \/ RTDecodeEnd

SpecOverlap == RTInit /\ [][RTNext]_vars

-----------------------------------------------------------------------------
(* Properties of the encoding and decoding of overlapping notes *)

\* the notes created so far by the decoding of rt
RTDecodedNotes ==
  IF rt.pc = "decode" THEN rt.d.current_instrument.notes
  ELSE IF rt.pc = "done" THEN rt.d.midi_tracks[1].notes
  ELSE <<>>

\* C9: of two notes of one pitch and program, the second starting before the
\* first ends, the first is recorded as ending where the second starts, and
\* every note decoded from their tokens is one of the two recorded notes:
\* each NoteOff closes the onset of the note it was made for, and at the end
\* both notes are decoded, the first before the second.
C9_OverlapTruncatedAndClosedInOrder ==
  rt.pc \notin {"idle", "preprocess"} =>
    /\ rt.notes[1].start + rt.notes[1].duration = rt.notes[2].start
    /\ \A j \in DOMAIN RTDecodedNotes : RTDecodedNotes[j] \in Range(rt.notes)
    /\ rt.pc = "done" => RTDecodedNotes = rt.notes

\* both notes are decoded, the second onset having been queued while the
\* first was still in the queue
C9_Witness ==
  /\ rt.pc = "done" /\ ~rt.off_first
  /\ Len(RTDecodedNotes) = 2

-----------------------------------------------------------------------------
(* Structured._tokens_to_midi                                              *)
(*                                                                         *)
(* sd holds the call's parameters (one_token_stream, programs,             *)
(* nseq = len(tokens)), the loop positions (pc, si), the cells seq[ti],    *)
(* seq[ti + 1] and seq[ti + 2] of the sequence being decoded (token,       *)
(* next_token, after_next; the loop reads no other cell), current_tick,    *)
(* current_program, the tracks (instruments, current_instrument,           *)
(* midi_tracks) and the exception that ended the call (raised).  last      *)
(* records what the last decoded token did.                                *)

\* the value of the TimeShift token of a time shift of 0
ZeroTimeShift == <<0, 0, 1>>

\* what the test of the two tokens after a Pitch token comes to: they are a
\* Velocity and a Duration ("note"), they are not ("skip"), or a cell read is
\* past the end of the sequence ("IndexError")
PitchLookahead_NoVelocityTest(has_next, next_token, has_after, after_next) ==
  IF ~has_next \/ ~has_after THEN "IndexError"
  ELSE IF after_next.type = "Duration" THEN "note"
  ELSE "skip"

PitchLookahead(has_next, next_token, has_after, after_next) ==
  IF ~has_next THEN "IndexError"
  ELSE IF next_token.type # "Velocity" THEN "skip"
  ELSE IF ~has_after THEN "IndexError"
  ELSE IF after_next.type = "Duration" THEN "note"
  ELSE "skip"

\* instruments[current_program].notes.append(new_note) after
\* check_inst(current_program), or current_instrument.notes.append(new_note)
StructAddNote(d, new_note) ==
  IF d.one_token_stream
    THEN LET instruments == CheckInst(d.instruments, d.current_program)
             i == TrackIndex(instruments, d.current_program)
         IN  [d EXCEPT !.instruments =
                          [instruments EXCEPT ![i].track.notes = Append(@, new_note)]]
    ELSE [d EXCEPT !.current_instrument.notes = Append(@, new_note)]

\* the Pitch branch: the note is created inside a try whose IndexError is
\* passed over
StructDecodePitch(d, token, has_next, next_token, has_after, after_next) ==
  LET found == PitchLookahead(has_next, next_token, has_after, after_next)
  IN  IF found = "note"
        THEN LET pitch == ParseInt(token.value)
                 vel == ParseInt(next_token.value)
                 duration == TokenDurationToTicks(after_next.value, config.time_division)
             IN  StructAddNote(d, Note(d.current_tick, duration, pitch, vel))
        ELSE d

\* one iteration of the decoding loop on seq[ti] = token
StructDecodeToken(d, token, has_next, next_token, has_after, after_next) ==
  IF token.type = "TimeShift" /\ token.value # ZeroTimeShift
    THEN [d EXCEPT !.current_tick =
                      @ + TokenDurationToTicks(token.value, config.time_division)]
  ELSE IF token.type = "Pitch"
    THEN StructDecodePitch(d, token, has_next, next_token, has_after, after_next)
  ELSE IF token.type = "Program"
    THEN [d EXCEPT !.current_program = ParseInt(token.value)]
  ELSE d

\* the top of the loop over sequences; programs[si] is (program, is_drum)
StructStartSequence(d) ==
  IF d.one_token_stream THEN d
  ELSE LET current_program == IF d.programs # None
                                THEN d.programs[d.si + 1][1] ELSE d.current_program
           is_drum == IF d.programs # None THEN d.programs[d.si + 1][2] ELSE FALSE
       IN  [d EXCEPT !.current_tick = 0,
                     !.current_program = current_program,
                     !.current_instrument =
                        [program |-> current_program, is_drum |-> is_drum,
                         notes |-> <<>>]]

\* after a sequence
StructEndSequence(d) ==
  IF d.one_token_stream THEN d
  ELSE [d EXCEPT !.midi_tracks = Append(@, d.current_instrument)]

\* after the last sequence
StructFinishDecoding(d) ==
  IF d.one_token_stream
    THEN [d EXCEPT !.midi_tracks = [i \in DOMAIN d.instruments |-> d.instruments[i].track]]
    ELSE d

\* the tokens of the Structured vocabulary the decoded sequences are made of
StructTokens(use_programs) ==
  { Tok("Pitch", <<p>>) : p \in VocabPitches }
    \cup { Tok("Velocity", <<config.velocities[1]>>),
           Tok("Duration", config.durations[1]),
           Tok("TimeShift", ZeroTimeShift), Tok("TimeShift", config.durations[2]) }
    \cup ( IF use_programs THEN { Tok("Program", <<config.programs[2]>>) } ELSE {} )

\* the state of a call before its first sequence
StructCall(one_token_stream, nseq, programs) ==
  [ one_token_stream |-> one_token_stream, nseq |-> nseq, programs |-> programs,
    pc |-> "seq_start", si |-> 0, ntokens |-> 0,
    token |-> NoToken, next_token |-> NoToken, after_next |-> NoToken,
    current_tick |-> 0, current_program |-> 0,
    instruments |-> <<>>, current_instrument |-> None, midi_tracks |-> <<>>,
    raised |-> "", last |-> "" ]

\* the calls decoded: one sequence of all tracks (use_programs), or one
\* sequence per track, with or without the programs of the tracks
StructCalls ==
  { StructCall(TRUE, 1, None) }
    \cup UNION { { StructCall(FALSE, n, pr) :
                     pr \in {None, [i \in 1 .. n |->
                                      <<config.programs[1 + (i % 2)], FALSE>>]} } :
                 n \in 1 .. MaxSeqs }

SDInit ==
  /\ sd \in StructCalls
  /\ ml = Idle /\ fifo = NoFifo /\ te = Idle /\ rt = Idle
  /\ se = Idle /\ er = Idle /\ mm = Idle
  /\ ei = Idle /\ tk = Idle /\ pd = Idle /\ me = Idle
  /\ vo = Idle /\ sp = Idle /\ nd = Idle /\ tg = Idle

\* the cells a sequence may hold next, budget tokens being left to the call;
\* with use_programs the sequences of one stream and of each track hold
\* Program tokens (lines 83-86)
StructCells(d, budget) ==
  IF budget > 0 THEN StructTokens(TRUE) \cup {NoToken} ELSE {NoToken}

\* the first three cells of the next sequence of tokens
SDStartSeq ==
  /\ sd.pc = "seq_start"
  /\ \E token \in StructCells(sd, MaxTokens - sd.ntokens) :
       \E next_token \in StructCells(sd, MaxTokens - sd.ntokens - 1) :
         \E after_next \in StructCells(sd, MaxTokens - sd.ntokens - 2) :
           /\ token = NoToken => next_token = NoToken
           /\ next_token = NoToken => after_next = NoToken
           /\ sd' = [StructStartSequence(sd) EXCEPT
                       !.token = token, !.next_token = next_token,
                       !.after_next = after_next,
                       !.pc = IF token = NoToken THEN "seq_end" ELSE "loop"]
  /\ UNCHANGED <<ml, fifo, te, rt, se, er, mm, ei, tk, pd, me, vo, sp, nd, tg>>

\* what decoding token did, d being the state after it
StructLast(before, token, d) ==
  IF d.raised # "" THEN "raised"
  ELSE IF token.type # "Pitch" THEN "other"
  ELSE IF d.instruments # before.instruments
            \/ d.current_instrument # before.current_instrument THEN "note"
  ELSE IF before.next_token = NoToken \/ before.after_next = NoToken
    THEN "short"
  ELSE "skip"

\* one iteration of the loop over the sequence; one more cell comes into view
SDDecodeToken ==
  /\ sd.pc = "loop"
  /\ LET d == StructDecodeToken(sd, sd.token, sd.next_token # NoToken, sd.next_token,
                                sd.after_next # NoToken, sd.after_next)
     IN  IF d.raised # ""
           THEN sd' = [d EXCEPT !.pc = "raised", !.last = "raised"]
           ELSE \E cell \in StructCells(sd, MaxTokens - sd.ntokens - 3) :
                  /\ sd.after_next = NoToken => cell = NoToken
                  /\ sd' = [d EXCEPT !.ntokens = @ + 1, !.token = sd.next_token,
                                     !.next_token = sd.after_next,
                                     !.after_next = cell,
                                     !.last = StructLast(sd, sd.token, d),
                                     !.pc = IF sd.next_token = NoToken
                                              THEN "seq_end" ELSE "loop"]
  /\ UNCHANGED <<ml, fifo, te, rt, se, er, mm, ei, tk, pd, me, vo, sp, nd, tg>>

SDEndSeq ==
  /\ sd.pc = "seq_end"
  /\ sd' = [StructEndSequence(sd) EXCEPT
              !.si = @ + 1,
              !.pc = IF sd.si + 1 < sd.nseq THEN "seq_start" ELSE "finish"]
  /\ UNCHANGED <<ml, fifo, te, rt, se, er, mm, ei, tk, pd, me, vo, sp, nd, tg>>

SDFinish ==
  /\ sd.pc = "finish"
  /\ sd' = [StructFinishDecoding(sd) EXCEPT !.pc = "done"]
  /\ UNCHANGED <<ml, fifo, te, rt, se, er, mm, ei, tk, pd, me, vo, sp, nd, tg>>

SDNext == SDStartSeq \/ SDDecodeToken \/ SDEndSeq \/ SDFinish

SpecStructDecode == SDInit /\ [][SDNext]_vars

-----------------------------------------------------------------------------
(* Properties of Structured decoding *)

\* the notes of the track that receives the notes decoded now
StructOutNotes(d) ==
  IF d.one_token_stream
    THEN IF \E i \in DOMAIN d.instruments : d.instruments[i].key = d.current_program
           THEN d.instruments[TrackIndex(d.instruments, d.current_program)].track.notes
           ELSE <<>>
    ELSE d.current_instrument.notes

\* number of notes created so far by the call
StructEmitted(d) ==
  IF d.one_token_stream
    THEN CountNotes([i \in DOMAIN d.instruments |-> d.instruments[i].track])
    ELSE CountNotes(d.midi_tracks)
           + (IF d.pc \in {"loop", "seq_end"} THEN Len(d.current_instrument.notes) ELSE 0)

\* the iteration on a Pitch token creates a note, made of the token and the
\* two after it at the current tick, when these two are a Velocity and a
\* Duration, and no note otherwise; it raises nothing, leaves the tick where it
\* was, and the loop goes on with the next token
StructPitchStep ==
  (sd.pc = "loop" /\ sd.token.type = "Pitch") =>
    LET followed == sd.next_token.type = "Velocity" /\ sd.after_next.type = "Duration"
    IN  /\ sd'.raised = ""
        /\ sd'.pc = IF sd.next_token = NoToken THEN "seq_end" ELSE "loop"
        /\ sd'.token = sd.next_token
        /\ sd'.current_tick = sd.current_tick
        /\ sd'.current_program = sd.current_program
        /\ IF followed
             THEN /\ StructOutNotes(sd') =
                       Append(StructOutNotes(sd),
                              Note(sd.current_tick,
                                   TokenDurationToTicks(sd.after_next.value,
                                                        config.time_division),
                                   ParseInt(sd.token.value),
                                   ParseInt(sd.next_token.value)))
                  /\ StructEmitted(sd') = StructEmitted(sd) + 1
             ELSE /\ sd'.instruments = sd.instruments
                  /\ sd'.current_instrument = sd.current_instrument
                  /\ sd'.midi_tracks = sd.midi_tracks

\* C10: in Structured decoding a Pitch token creates a note if and only if
\* the next token is a Velocity and the one after it a Duration; when these
\* cells are past the end of the sequence the note is skipped, nothing is
\* raised, and the decoding goes on with the tick cursor where it was.
C10_PitchNeedsVelocityThenDuration ==
  [](sd.pc # "idle" => sd.raised = "") /\ [][StructPitchStep]_vars

\* a Pitch token whose lookahead ran past the end of its sequence was
\* skipped, after a note had been created
C10_Witness ==
  /\ sd.pc \in {"loop", "seq_end"}
  /\ sd.last = "short"
  /\ StructEmitted(sd) > 0

\* C32 as stated: when the sequences of the tracks are decoded without the
\* programs of the tracks, every track created has program 0, whatever
\* Program tokens the sequences decoded before hold.
C32_TracksWithoutHintsAreProgramZero ==
  (sd.pc # "idle" /\ ~sd.one_token_stream /\ sd.programs = None) =>
    /\ \A t \in DOMAIN sd.midi_tracks : sd.midi_tracks[t].program = 0
    /\ sd.pc \in {"loop", "seq_end"} => sd.current_instrument.program = 0

-----------------------------------------------------------------------------
(* Structured._midi_to_tokens, then Structured._tokens_to_midi on its      *)
(* result.                                                                 *)
(*                                                                         *)
(* se holds the tokenizer's mode (one_token_stream, use_programs), the     *)
(* score's tracks, the loops of _midi_to_tokens and _create_track_events   *)
(* (pc, ti over tracks, ni over notes, previous_tick, events), all_events, *)
(* the token sequences made (tok_sequence), the exception that ended the   *)
(* encoding (raised), and the decoding call d reading                      *)
(* tok_sequence[d.si + 1][di].                                             *)

\* tracks of a score
MaxTracks == 2

\* notes of a score, all its tracks together
MaxNotes == 2

\* self._tpb_ticks_to_tokens[time_division][ticks]: the duration value of
\* ticks, None (the lookup is a KeyError) when the table has none
TicksToToken(ticks) ==
  LET fit == { i \in DOMAIN config.durations : BinTicks(config.durations[i]) = ticks }
  IN  IF fit = {} THEN None ELSE config.durations[CHOOSE i \in fit : TRUE]

\* program = track.program if not track.is_drum else -1
TrackProgram(track) == IF track.is_drum THEN -1 ELSE track.program

\* one iteration of the loop over the notes of a track
CreateNoteEvents(s, note, program) ==
  LET time_shift_ticks == note.start - s.previous_tick
      time_shift == IF time_shift_ticks # 0
                      THEN TicksToToken(time_shift_ticks) ELSE ZeroTimeShift
      dur == TicksToToken(note.duration)
      note_end == note.start + note.duration
      shift_events == IF ~s.one_token_stream
                        THEN <<Event("TimeShift", time_shift, note.start, time_shift_ticks)>>
                        ELSE <<>>
      program_events == IF s.use_programs
                          THEN <<Event("Program", <<program>>, note.start, note_end)>>
                          ELSE <<>>
  IN  IF (~s.one_token_stream /\ time_shift = None) \/ dur = None
        THEN Raise(s, "KeyError")
        ELSE [s EXCEPT
                !.events = @ \o shift_events \o program_events
                             \o << Event("Pitch", <<note.pitch>>, note.start, note_end),
                                   Event("Velocity", <<note.velocity>>, note.start, 0),
                                   Event("Duration", dur, note.start, note.duration) >>,
                !.previous_tick = note.start]

\* all_events += note_events, or all_events.append(note_events)
AddTrackEvents(s) ==
  [s EXCEPT !.all_events = IF s.one_token_stream THEN @ \o s.events
                           ELSE Append(@, s.events)]

\* the tokens of a sequence of events
EventTokens(events) == [j \in DOMAIN events |-> EventToken(events[j])]

\* "Add time events" of _midi_to_tokens.  One stream: _add_time_events takes
\* (events, time_division) and is called with all_events alone, a TypeError.
\* One sequence per track: the events of each track become a sequence.
MidiToTokSequence(s) ==
  IF s.one_token_stream
    THEN Raise(s, "TypeError")
    ELSE [s EXCEPT !.tok_sequence =
                      [i \in DOMAIN s.all_events |-> EventTokens(s.all_events[i])]]

\* the scores encoded: tracks of programs 0, 1, 0, ... whose notes are sorted
\* by start, MaxNotes notes at most in the score
ScoreNotes ==
  { Note(start, BinTicks(config.durations[i]), config.pitch_range[1], velocity) :
      start \in 0 .. MaxTick, i \in DOMAIN config.durations,
      velocity \in Range(config.velocities) }

NoteLists(n) ==
  { notes \in UNION { [1 .. k -> ScoreNotes] : k \in 0 .. n } :
      \A j \in 1 .. Len(notes) - 1 : notes[j].start <= notes[j + 1].start }

RECURSIVE Scores(_, _)
Scores(ntracks, nnotes) ==
  IF ntracks = 0 THEN { <<>> }
  ELSE UNION { { Append(score, [program |-> config.programs[1 + ((ntracks + 1) % 2)],
                                is_drum |-> FALSE, notes |-> notes]) :
                   score \in Scores(ntracks - 1, nnotes - Len(notes)) } :
               notes \in NoteLists(nnotes) }

\* the state of _midi_to_tokens before its loop over the tracks of score
StructEncode(one_token_stream, use_programs, score) ==
  [ one_token_stream |-> one_token_stream, use_programs |-> use_programs,
    tracks |-> score, pc |-> "track", ti |-> 1, ni |-> 1,
    previous_tick |-> 0, events |-> <<>>, all_events |-> <<>>,
    tok_sequence |-> <<>>, raised |-> "",
    d |-> StructCall(one_token_stream, 1, None), di |-> 1 ]

SEInit ==
  /\ se \in UNION { { StructEncode(mode[1], mode[2], score) :
                        score \in Scores(n, MaxNotes) } :
                    mode \in { <<TRUE, TRUE>>, <<FALSE, TRUE>>, <<FALSE, FALSE>> },
                    n \in 0 .. MaxTracks }
  /\ ml = Idle /\ fifo = NoFifo /\ te = Idle /\ rt = Idle /\ sd = Idle
  /\ er = Idle /\ mm = Idle
  /\ ei = Idle /\ tk = Idle /\ pd = Idle /\ me = Idle
  /\ vo = Idle /\ sp = Idle /\ nd = Idle /\ tg = Idle

\* the next track, or the end of the loop over tracks
SETrack ==
  /\ se.pc = "track"
  /\ se' = IF se.ti <= Len(se.tracks)
             THEN [se EXCEPT !.events = <<>>, !.previous_tick = 0, !.ni = 1,
                             !.pc = "notes"]
             ELSE [se EXCEPT !.pc = "time",
                             !.all_events = IF ~se.one_token_stream /\ Len(se.tracks) = 0
                                              THEN << <<>> >> ELSE @]
  /\ UNCHANGED <<ml, fifo, te, rt, sd, er, mm, ei, tk, pd, me, vo, sp, nd, tg>>

\* one iteration of the loop of _create_track_events
SENoteEvents ==
  /\ se.pc = "notes"
  /\ se.ni <= Len(se.tracks[se.ti].notes)
  /\ LET s == CreateNoteEvents(se, se.tracks[se.ti].notes[se.ni],
                               TrackProgram(se.tracks[se.ti]))
     IN  se' = IF s.raised # "" THEN [s EXCEPT !.pc = "raised"]
               ELSE [s EXCEPT !.ni = @ + 1]
  /\ UNCHANGED <<ml, fifo, te, rt, sd, er, mm, ei, tk, pd, me, vo, sp, nd, tg>>

\* the events of the track join all_events
SEEndTrack ==
  /\ se.pc = "notes"
  /\ se.ni > Len(se.tracks[se.ti].notes)
  /\ se' = [AddTrackEvents(se) EXCEPT !.ti = @ + 1, !.pc = "track"]
  /\ UNCHANGED <<ml, fifo, te, rt, sd, er, mm, ei, tk, pd, me, vo, sp, nd, tg>>

\* the token sequences are made; their decoding is called with the programs
\* of the tracks
SETokens ==
  /\ se.pc = "time"
  /\ LET s == MidiToTokSequence(se)
     IN  se' = IF s.raised # "" THEN [s EXCEPT !.pc = "raised"]
               ELSE [s EXCEPT
                       !.d = StructCall(s.one_token_stream, Len(s.tok_sequence),
                                        [i \in DOMAIN se.tracks |->
                                           <<se.tracks[i].program, se.tracks[i].is_drum>>]),
                       !.pc = "seq_start"]
  /\ UNCHANGED <<ml, fifo, te, rt, sd, er, mm, ei, tk, pd, me, vo, sp, nd, tg>>

\* the cell j of the sequence being decoded
SECell(j) ==
  IF j <= Len(se.tok_sequence[se.d.si + 1]) THEN se.tok_sequence[se.d.si + 1][j]
  ELSE NoToken

SEDecodeStartSeq ==
  /\ se.pc = "seq_start"
  /\ se' = IF se.d.si < se.d.nseq
             THEN [se EXCEPT !.d = StructStartSequence(@), !.di = 1, !.pc = "decode"]
             ELSE [se EXCEPT !.d = StructFinishDecoding(@), !.pc = "done"]
  /\ UNCHANGED <<ml, fifo, te, rt, sd, er, mm, ei, tk, pd, me, vo, sp, nd, tg>>

\* one iteration of the decoding loop
SEDecodeToken ==
  /\ se.pc = "decode"
  /\ SECell(se.di) # NoToken
  /\ se' = [se EXCEPT
              !.d = StructDecodeToken(@, SECell(se.di),
                                      SECell(se.di + 1) # NoToken, SECell(se.di + 1),
                                      SECell(se.di + 2) # NoToken, SECell(se.di + 2)),
              !.di = @ + 1]
  /\ UNCHANGED <<ml, fifo, te, rt, sd, er, mm, ei, tk, pd, me, vo, sp, nd, tg>>

SEDecodeEndSeq ==
  /\ se.pc = "decode"
  /\ SECell(se.di) = NoToken
  /\ se' = [se EXCEPT !.d = [StructEndSequence(@) EXCEPT !.si = @ + 1],
                      !.pc = "seq_start"]
  /\ UNCHANGED <<ml, fifo, te, rt, sd, er, mm, ei, tk, pd, me, vo, sp, nd, tg>>

SENext ==
  \/ SETrack \/ SENoteEvents \/ SEEndTrack \/ SETokens
  \/ SEDecodeStartSeq \/ SEDecodeToken \/ SEDecodeEndSeq

SpecStructEncode == SEInit /\ [][SENext]_vars

\* Structured._create_token_types_graph
StructTokenTypesGraph(use_programs) ==
  LET dic == [ Pitch |-> {"Velocity"}, Velocity |-> {"Duration"},
               Duration |-> {"TimeShift"}, TimeShift |-> {"Pitch"},
               Program |-> {} ]
  IN  IF use_programs
        THEN [dic EXCEPT !.Program = {"Pitch"}, !.TimeShift = {"Program"}]
        ELSE dic

-----------------------------------------------------------------------------
(* Properties of Structured encoding *)

\* the starts of the notes of the score, and tick 0
SEStarts ==
  {0} \cup UNION { { se.tracks[i].notes[j].start : j \in DOMAIN se.tracks[i].notes } :
                   i \in DOMAIN se.tracks }

\* every gap between two onsets of the score has a TimeShift token (the
\* durations of the notes are those of the table)
SEGapsRepresentable ==
  \A a \in SEStarts : \A b \in SEStarts : a < b => TicksToToken(b - a) # None

\* the token sequences of the score exist
SEEncoded == se.pc \in {"seq_start", "decode", "done"}

\* the notes decoded for the track i of the score
SEDecodedNotes(i) ==
  IF se.one_token_stream
    THEN UNION { Range(se.d.midi_tracks[k].notes) :
                   k \in { k \in DOMAIN se.d.midi_tracks :
                             se.d.midi_tracks[k].program = se.tracks[i].program } }
    ELSE Range(se.d.midi_tracks[i].notes)

\* the notes of the score that belong with those of its track i
SEScoreNotes(i) ==
  IF se.one_token_stream
    THEN UNION { Range(se.tracks[k].notes) :
                   k \in { k \in DOMAIN se.tracks :
                             se.tracks[k].program = se.tracks[i].program } }
    ELSE Range(se.tracks[i].notes)

\* C11 as stated: a score on the time grid whose onset gaps and durations are
\* representable is encoded and decoded without error, single stream or one
\* sequence per track, and the notes decoded are the notes of the score, with
\* their onsets, durations, pitches and velocities.
C11_StructuredRoundTrip ==
  (se.pc # "idle" /\ SEGapsRepresentable) =>
    /\ se.raised = ""
    /\ se.pc = "done" =>
         \A i \in DOMAIN se.tracks :
           /\ SEDecodedNotes(i) = SEScoreNotes(i)
           /\ ~se.one_token_stream =>
                Len(se.d.midi_tracks[i].notes) = Len(se.tracks[i].notes)

\* the positions of the tokens of type in seq
Positions(seq, type) == { j \in DOMAIN seq : seq[j].type = type }

\* the position of the k-th token of type in seq
KthPosition(seq, type, k) ==
  CHOOSE j \in Positions(seq, type) :
    Cardinality({ h \in Positions(seq, type) : h <= j }) = k

\* seq has one TimeShift per note of notes, each right before the first token
\* of a note's group, the zero TimeShift where the note starts with the note
\* before it (at tick 0 for the first), and has no Rest
OneTimeShiftPerNote(seq, notes, first_type) ==
  /\ Cardinality(Positions(seq, "TimeShift")) = Len(notes)
  /\ Cardinality(Positions(seq, first_type)) = Len(notes)
  /\ Positions(seq, "Rest") = {}
  /\ \A j \in Positions(seq, first_type) : j > 1 /\ seq[j - 1].type = "TimeShift"
  /\ \A k \in DOMAIN notes :
       LET previous == IF k = 1 THEN 0 ELSE notes[k - 1].start
       IN  (seq[KthPosition(seq, "TimeShift", k)].value = ZeroTimeShift)
             <=> (notes[k].start = previous)

\* the notes of all tracks in the order of their starts (tracks of one note
\* at most are merged here)
SEMergedNotes ==
  LET all == UNION { Range(se.tracks[i].notes) : i \in DOMAIN se.tracks }
  IN  IF all = {} THEN <<>>
      ELSE CHOOSE notes \in UNION { [1 .. k -> all] : k \in 1 .. MaxNotes } :
             /\ Range(notes) = all
             /\ Len(notes) = Cardinality(all)
             /\ \A j \in 1 .. Len(notes) - 1 : notes[j].start <= notes[j + 1].start

\* C12 as stated: the encoding emits one TimeShift token per note, right
\* before the first token of the note's group (Program with programs, Pitch
\* without), the zero TimeShift exactly when the note starts where the note
\* before it starts (or at 0 for the first), and no Rest token; single stream
\* or one sequence per track.
C12_OneTimeShiftPerNote ==
  (se.pc # "idle" /\ SEGapsRepresentable) =>
    /\ se.raised = ""
    /\ SEEncoded =>
         LET first_type == IF se.use_programs THEN "Program" ELSE "Pitch"
         IN  IF se.one_token_stream
               THEN OneTimeShiftPerNote(se.tok_sequence[1], SEMergedNotes, first_type)
               ELSE \A i \in DOMAIN se.tracks :
                      OneTimeShiftPerNote(se.tok_sequence[i], se.tracks[i].notes,
                                          first_type)

\* every two consecutive tokens of seq are an edge of graph
TypeSuccessionsValid(seq, graph) ==
  \A j \in 1 .. Len(seq) - 1 : seq[j + 1].type \in graph[seq[j].type]

\* C14 as stated: the score is encoded, single stream with programs or one
\* sequence per track with or without programs, and every two consecutive
\* token types of a sequence made are an edge of the token-type graph.
C14_EncodedSuccessionsAreEdges ==
  (se.pc # "idle" /\ SEGapsRepresentable) =>
    /\ se.raised = ""
    /\ SEEncoded =>
         \A i \in DOMAIN se.tok_sequence :
           TypeSuccessionsValid(se.tok_sequence[i],
                                StructTokenTypesGraph(se.use_programs))

-----------------------------------------------------------------------------
(* MIDILike.tokens_errors                                                  *)
(*                                                                         *)
(* er holds the tokenizer's has_bpe, remove_duplicated_notes and           *)
(* max_duration, the ids given (each id is the tuple of the base tokens it *)
(* stands for: one for a base id, two for a merged id), the denominator    *)
(* nb_tok_predicted, the events scored, the number i of events scored so   *)
(* far, err and the scoring state.  score is the fraction returned,        *)
(* <<numerator, denominator>>.  last names what the last scored event did. *)

\* events scored in one call
MaxScored == 3

\* _create_token_types_graph of a configuration without chords, tempos, time
\* signatures, pedals and pitch bends; each list of successors as a set
MIDILikeTokenTypesGraph(use_programs, program_changes, use_pitch_intervals, use_rests) ==
  LET first_note_token_type ==
        IF use_programs /\ ~program_changes THEN "Program" ELSE "NoteOn"
      intervals == {"PitchIntervalTime", "PitchIntervalChord"}
      after_program == IF use_pitch_intervals /\ use_programs THEN intervals ELSE {}
      after_others == IF use_pitch_intervals /\ ~use_programs THEN intervals ELSE {}
      program == IF program_changes THEN {"Program"} ELSE {}
      rest == IF use_rests THEN {"Rest"} ELSE {}
      types == {"NoteOn", "Velocity", "NoteOff", "TimeShift"}
                 \cup (IF use_programs THEN {"Program"} ELSE {})
                 \cup (IF use_pitch_intervals THEN intervals ELSE {})
                 \cup rest
  IN  [ t \in types |->
          IF t = "NoteOn" THEN {"Velocity"}
          ELSE IF t = "Program"
            THEN {"NoteOn", "NoteOff"} \cup after_program
                   \cup (IF program_changes THEN {"TimeShift"} \cup rest ELSE {})
          ELSE IF t = "Velocity"
            THEN {first_note_token_type, "TimeShift"} \cup after_others \cup program
          ELSE IF t = "NoteOff"
            THEN {"NoteOff", first_note_token_type, "TimeShift"}
                   \cup after_others \cup program \cup rest
          ELSE IF t = "TimeShift"
            THEN {"NoteOff", first_note_token_type, "TimeShift"}
                   \cup after_others \cup program
          ELSE IF t = "Rest"
            THEN {"Rest", first_note_token_type, "TimeShift"}
                   \cup (IF use_pitch_intervals THEN intervals ELSE {}) \cup program
          ELSE {"Velocity"} ]

\* self.tokens_types_graph of the tokenizer scored: programs without program
\* changes, pitch intervals and rests
tokens_types_graph == MIDILikeTokenTypesGraph(TRUE, FALSE, TRUE, TRUE)

\* the tokens of its vocabulary the scored sequences are made of
ERTokens ==
  { Tok("NoteOn", <<p>>) : p \in VocabPitches }
    \cup { Tok("NoteOff", <<p>>) : p \in VocabPitches }
    \cup { Tok("Velocity", <<config.velocities[1]>>) }
    \cup { Tok("TimeShift", config.durations[1]), Tok("Rest", config.rests[1]) }
    \cup { Tok("PitchIntervalTime", <<1>>) }
    \cup { Tok("Program", <<p>>) : p \in Range(config.programs) }

\* the ids of tokens once the pairs that start at the positions of merged are
\* replaced by one merged id each
RECURSIVE CompressedIds(_, _, _)
CompressedIds(tokens, merged, j) ==
  IF j > Len(tokens) THEN <<>>
  ELSE IF j \in merged /\ j < Len(tokens)
    THEN << <<tokens[j], tokens[j + 1]>> >> \o CompressedIds(tokens, merged, j + 2)
  ELSE << <<tokens[j]>> >> \o CompressedIds(tokens, merged, j + 1)

\* decode_bpe: every id replaced by the base tokens it stands for
RECURSIVE DecodeBpe(_)
DecodeBpe(ids) ==
  IF ids = <<>> THEN <<>> ELSE Head(ids) \o DecodeBpe(Tail(ids))

\* the call before its first statement
ERCall(has_bpe, remove_duplicated_notes, max_duration, ids) ==
  [ pc |-> "call", has_bpe |-> has_bpe,
    remove_duplicated_notes |-> remove_duplicated_notes,
    max_duration |-> max_duration, ids |-> ids,
    nb_tok_predicted |-> 0, events |-> <<>>, i |-> 0, err |-> 0,
    current_program |-> 0,
    active_pitches |-> [p \in Range(config.programs) |-> [pi \in ActivePitches |-> 0]],
    current_pitches_tick |-> [p \in Range(config.programs) |-> <<>>],
    previous_pitch_onset |-> [p \in Range(config.programs) |-> NoPitch],
    previous_pitch_chord |-> [p \in Range(config.programs) |-> NoPitch],
    score |-> None, last |-> "", raised |-> "" ]

\* lines 578-612: an empty sequence returns 0; otherwise the denominator is
\* taken, the ids are decoded and the scoring state is created
StartScoring(s) ==
  IF Len(s.ids) = 0 THEN [s EXCEPT !.pc = "returned", !.score = <<0, 1>>]
  ELSE [s EXCEPT !.pc = "loop",
                 !.nb_tok_predicted = Len(s.ids),
                 !.events = IF s.has_bpe THEN DecodeBpe(s.ids)
                            ELSE [j \in DOMAIN s.ids |-> s.ids[j][1]],
                 !.max_duration =
                    IF @ = None THEN None
                    ELSE <<TokenDurationToTicks(@, config.time_division)>>]

\* lines 659-681, from events[j] on: TRUE when offset_sample exceeds
\* max_duration before a NoteOff of pitch_val is met (current_program_noff is
\* assigned and compared there with no effect on the outcome)
RECURSIVE NoteOffTooFar_AtLeast(_, _, _, _, _)
NoteOffTooFar_AtLeast(events, j, pitch_val, offset_sample, max_duration) ==
  IF j > Len(events) THEN FALSE
  ELSE IF events[j].type = "NoteOff" /\ ParseInt(events[j].value) = pitch_val
    THEN FALSE
  ELSE LET offset == IF events[j].type \in {"TimeShift", "Rest"}
                       THEN offset_sample
                              + TokenDurationToTicks(events[j].value, config.time_division)
                       ELSE offset_sample
       IN  IF offset >= max_duration THEN TRUE
           ELSE NoteOffTooFar_AtLeast(events, j + 1, pitch_val, offset, max_duration)

\* the scan in which a NoteOff of the pitch met after a Program event counts
\* an error (changed: a Program event was met)
RECURSIVE ScanProgramMatch(_, _, _, _, _, _)
ScanProgramMatch(events, j, pitch_val, offset_sample, max_duration, changed) ==
  IF j > Len(events) THEN FALSE
  ELSE IF events[j].type = "NoteOff" /\ ParseInt(events[j].value) = pitch_val
    THEN changed
  ELSE LET offset == IF events[j].type \in {"TimeShift", "Rest"}
                       THEN offset_sample
                              + TokenDurationToTicks(events[j].value, config.time_division)
                       ELSE offset_sample
       IN  IF offset > max_duration THEN TRUE
           ELSE ScanProgramMatch(events, j + 1, pitch_val, offset, max_duration,
                                 changed \/ events[j].type = "Program")

NoteOffTooFar_ProgramMatch(events, j, pitch_val, offset_sample, max_duration) ==
  ScanProgramMatch(events, j, pitch_val, offset_sample, max_duration, FALSE)

RECURSIVE NoteOffTooFar(_, _, _, _, _)
NoteOffTooFar(events, j, pitch_val, offset_sample, max_duration) ==
  IF j > Len(events) THEN FALSE
  ELSE IF events[j].type = "NoteOff" /\ ParseInt(events[j].value) = pitch_val
    THEN FALSE
  ELSE LET offset == IF events[j].type \in {"TimeShift", "Rest"}
                       THEN offset_sample
                              + TokenDurationToTicks(events[j].value, config.time_division)
                       ELSE offset_sample
       IN  IF offset > max_duration THEN TRUE
           ELSE NoteOffTooFar(events, j + 1, pitch_val, offset, max_duration)

\* lines 628-681: a note-on-class event of a permitted type, events[i]
ScoreNoteOn(s, i) ==
  LET event == s.events[i]
      prog == s.current_program
      pitch_val == NotePitch(s, event.type, event.value)
      s1 == UpdatePreviousPitch(s, event.type, pitch_val)
  IN  IF pitch_val \notin DOMAIN s.active_pitches[prog]
        THEN [Raise(s1, "KeyError") EXCEPT !.pc = "raised", !.last = "raised"]
      ELSE LET s2 == [s1 EXCEPT !.active_pitches[prog][pitch_val] = @ + 1]
           IN  IF s.remove_duplicated_notes
                    /\ pitch_val \in Range(s.current_pitches_tick[prog])
                 THEN [s2 EXCEPT !.err = @ + 1, !.last = "duplicate"]
               ELSE LET s3 == [s2 EXCEPT !.current_pitches_tick[prog] =
                                            Append(@, pitch_val)]
                    IN  IF s.max_duration # None
                             /\ NoteOffTooFar(s.events, i + 1, pitch_val, 0,
                                              s.max_duration[1])
                          THEN [s3 EXCEPT !.err = @ + 1, !.last = "too_long"]
                          ELSE [s3 EXCEPT !.last = "note_on"]

\* lines 682-686: a NoteOff of a permitted type
ScoreNoteOff_AlwaysDecrement(s, i) ==
  [s EXCEPT !.active_pitches[s.current_program][ParseInt(s.events[i].value)] = @ - 1,
            !.last = "note_off"]

ScoreNoteOff(s, i) ==
  LET pitch == ParseInt(s.events[i].value)
  IN  IF s.active_pitches[s.current_program][pitch] = 0
        THEN [s EXCEPT !.err = @ + 1, !.last = "note_off_error"]
        ELSE [s EXCEPT !.active_pitches[s.current_program][pitch] = @ - 1,
                       !.last = "note_off"]

\* lines 623-690: the event events[i] when its type is permitted (i from 1)
ScorePermitted(s, i) ==
  LET event == s.events[i]
  IN  IF event.type \in {"NoteOn", "PitchIntervalTime", "PitchIntervalChord"}
        THEN ScoreNoteOn(s, i)
      ELSE IF event.type = "NoteOff" THEN ScoreNoteOff(s, i)
      ELSE IF event.type = "Program" /\ i < Len(s.events)
        THEN [s EXCEPT !.current_program = ParseInt(event.value), !.last = "program"]
      ELSE IF event.type \in {"TimeShift", "Rest"}
        THEN [s EXCEPT !.current_pitches_tick = [p \in Range(config.programs) |-> <<>>],
                       !.last = "time"]
      ELSE [s EXCEPT !.last = "other"]

\* events[i] is not a permitted successor of events[i - 1] (lines 617-620)
BadTokenType(events, i) ==
  i > 1 /\ events[i].type \notin tokens_types_graph[events[i - 1].type]

\* one iteration of the loop of lines 614-690, on the event after the i scored
ScoreEvent_NoTypeTest(s) ==
  [ScorePermitted(s, s.i + 1) EXCEPT !.i = s.i + 1]

ScoreEvent(s) ==
  LET i == s.i + 1
  IN  IF BadTokenType(s.events, i)
        THEN [s EXCEPT !.err = @ + 1, !.i = i, !.last = "bad_type"]
        ELSE [ScorePermitted(s, i) EXCEPT !.i = i]

\* line 692
ReturnScore(s) ==
  [s EXCEPT !.pc = "returned", !.score = <<s.err, s.nb_tok_predicted>>]

\* the calls scored: uncompressed ids, or ids some of which are merged
ERInit ==
  /\ \E n \in 0 .. MaxScored : \E tokens \in [1 .. n -> ERTokens] :
       \E rd \in BOOLEAN, md \in {None, config.durations[1]} :
         \/ er = ERCall(FALSE, rd, md, CompressedIds(tokens, {}, 1))
         \/ \E merged \in SUBSET (1 .. n - 1) :
              er = ERCall(TRUE, rd, md, CompressedIds(tokens, merged, 1))
  /\ ml = Idle /\ fifo = NoFifo /\ te = Idle /\ rt = Idle /\ sd = Idle
  /\ se = Idle /\ mm = Idle
  /\ ei = Idle /\ tk = Idle /\ pd = Idle /\ me = Idle
  /\ vo = Idle /\ sp = Idle /\ nd = Idle /\ tg = Idle

ERStart ==
  /\ er.pc = "call"
  /\ er' = StartScoring(er)
  /\ UNCHANGED <<ml, fifo, te, rt, sd, se, mm, ei, tk, pd, me, vo, sp, nd, tg>>

ERScoreEvent ==
  /\ er.pc = "loop" /\ er.i < Len(er.events)
  /\ er' = ScoreEvent(er)
  /\ UNCHANGED <<ml, fifo, te, rt, sd, se, mm, ei, tk, pd, me, vo, sp, nd, tg>>

ERReturn ==
  /\ er.pc = "loop" /\ er.i = Len(er.events)
  /\ er' = ReturnScore(er)
  /\ UNCHANGED <<ml, fifo, te, rt, sd, se, mm, ei, tk, pd, me, vo, sp, nd, tg>>

ERNext == ERStart \/ ERScoreEvent \/ ERReturn

SpecErrors == ERInit /\ [][ERNext]_vars

-----------------------------------------------------------------------------
(* Properties of the validity score *)

\* the fraction <<numerator, denominator>> lies in [0, 1]
InUnitInterval(score) == score[2] > 0 /\ 0 <= score[1] /\ score[1] <= score[2]

\* C13 as stated: every call, on compressed ids or not, returns a score in
\* [0, 1]: it raises nothing, the errors counted never exceed the token count
\* used as the denominator, and the empty sequence scores 0.
C13_ScoreInUnitInterval ==
  /\ er.pc # "raised"
  /\ er.pc = "loop" => er.err <= er.nb_tok_predicted
  /\ er.pc = "returned" =>
       /\ InUnitInterval(er.score)
       /\ er.ids = <<>> => er.score[1] = 0

\* the loop is about to score the event after the i scored
ScoresNext(s) == s.pc = "loop" /\ s.i < Len(s.events)

\* the scoring state of the loop
ScoringState(s) ==
  <<s.active_pitches, s.current_program, s.current_pitches_tick,
    s.previous_pitch_onset, s.previous_pitch_chord>>

\* C15: scoring an event at a position after the first whose type is not a
\* permitted successor of the type of the event before it adds exactly one
\* error and changes none of the active-pitch counters, the current program,
\* the pitches of the current tick and the previous-pitch registers.
C15_BadTypeCountsOneErrorOnly ==
  [][ (ScoresNext(er) /\ BadTokenType(er.events, er.i + 1)) =>
        /\ er'.pc = "loop"
        /\ er'.err = er.err + 1
        /\ ScoringState(er') = ScoringState(er) ]_vars

\* a NoteOff of a type not permitted was scored while its pitch was active
\* under the current program: the counter was not decremented
C15_Witness ==
  /\ er.pc = "loop" /\ er.last = "bad_type"
  /\ er.events[er.i].type = "NoteOff"
  /\ er.active_pitches[er.current_program][ParseInt(er.events[er.i].value)] > 0
  /\ er.current_pitches_tick[er.current_program] # <<>>

\* the event about to be scored has a permitted type, type
ScoresPermitted(s, type) ==
  /\ ScoresNext(s)
  /\ ~BadTokenType(s.events, s.i + 1)
  /\ s.events[s.i + 1].type = type

\* C16: a NoteOff of a permitted type, for a pitch whose counter under the
\* current program is zero, adds one error and leaves the counter at zero;
\* for a counter above zero it decrements the counter by one and adds no
\* error; no active-pitch counter is ever negative.
C16_NoteOffErrorOrDecrement ==
  /\ [](er.pc # "idle" =>
          \A p \in DOMAIN er.active_pitches :
            \A pi \in DOMAIN er.active_pitches[p] : er.active_pitches[p][pi] >= 0)
  /\ [][ ScoresPermitted(er, "NoteOff") =>
           LET p == er.current_program
               pi == ParseInt(er.events[er.i + 1].value)
           IN  IF er.active_pitches[p][pi] = 0
                 THEN /\ er'.err = er.err + 1
                      /\ er'.active_pitches = er.active_pitches
                 ELSE /\ er'.err = er.err
                      /\ er'.active_pitches =
                           [er.active_pitches EXCEPT ![p][pi] = @ - 1] ]_vars

\* a NoteOff closed the one active note of its pitch, after an event that
\* counted an error
C16_Witness ==
  /\ er.pc = "loop" /\ er.last = "note_off"
  /\ er.active_pitches[er.current_program][ParseInt(er.events[er.i].value)] = 0
  /\ er.err > 0

\* ticks of the TimeShift and Rest events among events[a .. b]
RECURSIVE ElapsedTicks(_, _, _)
ElapsedTicks(events, a, b) ==
  IF a > b THEN 0
  ELSE ( IF events[a].type \in {"TimeShift", "Rest"}
           THEN TokenDurationToTicks(events[a].value, config.time_division)
           ELSE 0 )
       + ElapsedTicks(events, a + 1, b)

IsNoteOffOf(event, pitch) == event.type = "NoteOff" /\ ParseInt(event.value) = pitch

\* after events[i], the ticks of the TimeShift and Rest events exceed
\* max_duration at some event before any NoteOff of pitch
TooLongBeforeNoteOff(events, i, pitch, max_duration) ==
  \E k \in i + 1 .. Len(events) :
    /\ ElapsedTicks(events, i + 1, k) > max_duration
    /\ \A m \in i + 1 .. k : ~IsNoteOffOf(events[m], pitch)

\* the event about to be scored is a note-on-class event of a permitted type,
\* its pitch has a counter, and it is not counted as a duplicate
ScoresNewNoteOn(s) ==
  /\ ScoresNext(s)
  /\ ~BadTokenType(s.events, s.i + 1)
  /\ s.events[s.i + 1].type \in {"NoteOn", "PitchIntervalTime", "PitchIntervalChord"}
  /\ LET pitch == NotePitch(s, s.events[s.i + 1].type, s.events[s.i + 1].value)
     IN  /\ pitch \in DOMAIN s.active_pitches[s.current_program]
         /\ ~( s.remove_duplicated_notes
                 /\ pitch \in Range(s.current_pitches_tick[s.current_program]) )

\* C17: with a maximum duration set, a note-on-class token of a permitted
\* type that is not a duplicate adds exactly one error when the ticks of the
\* TimeShift and Rest tokens after it exceed the maximum duration before a
\* NoteOff of its pitch is met, and no error otherwise, the end of the
\* sequence reached without either included.
C17_OneErrorIffTooLongBeforeNoteOff ==
  [][ (ScoresNewNoteOn(er) /\ er.max_duration # None) =>
        LET event == er.events[er.i + 1]
            pitch == NotePitch(er, event.type, event.value)
        IN  er'.err = er.err
                        + ( IF TooLongBeforeNoteOff(er.events, er.i + 1, pitch,
                                                    er.max_duration[1])
                              THEN 1 ELSE 0 ) ]_vars

\* a note-on was counted too long although a NoteOff of its pitch follows:
\* the ticks exceeded the maximum before it
C17_Witness ==
  /\ er.pc = "loop" /\ er.last = "too_long"
  /\ \E m \in er.i + 1 .. Len(er.events) :
       IsNoteOffOf(er.events[m], er.previous_pitch_chord[er.current_program])

\* C35: with a maximum duration set, when the scan after a note-on-class
\* token meets a NoteOff of its pitch before the ticks exceed the maximum,
\* no error is counted, whatever Program tokens lie between the two.
C35_FirstNoteOffEndsScanAnyProgram ==
  [][ (ScoresNewNoteOn(er) /\ er.max_duration # None) =>
        LET event == er.events[er.i + 1]
            pitch == NotePitch(er, event.type, event.value)
        IN  \A m \in er.i + 2 .. Len(er.events) :
              ( /\ IsNoteOffOf(er.events[m], pitch)
                /\ \A k \in er.i + 2 .. m - 1 :
                     /\ ~IsNoteOffOf(er.events[k], pitch)
                     /\ ElapsedTicks(er.events, er.i + 2, k) <= er.max_duration[1] )
              => (er'.err = er.err /\ er'.last = "note_on") ]_vars

\* a note-on was scored without error, a Program token of another program
\* and then a NoteOff of its pitch coming after it
C35_Witness ==
  /\ er.pc = "loop" /\ er.last = "note_on" /\ er.max_duration # None
  /\ er.i + 2 <= Len(er.events)
  /\ er.events[er.i + 1].type = "Program"
  /\ ParseInt(er.events[er.i + 1].value) # er.current_program
  /\ IsNoteOffOf(er.events[er.i + 2], er.previous_pitch_chord[er.current_program])

-----------------------------------------------------------------------------
(* MMM over a MIDILike base tokenizer                                      *)
(*                                                                         *)
(* mm holds the base tokenizer's use_rests, the event lists of the tracks  *)
(* of the score (tracks), the number ti of tracks encoded, the event       *)
(* sequences made of them (sequences), the concatenated token sequence     *)
(* (tokseq), and keep_track_tokens and the result (tokseqs) of             *)
(* split_tokseq_per_track.                                                 *)

\* Event("Track", "Start", 0) and Event("Track", "End", time)
TrackStartEvent == Event("Track", <<"Start">>, 0, 0)

TrackEndEvent(time) == Event("Track", <<"End">>, time, 0)

IsTrackToken(token, value) == token.type = "Track" /\ token.value = <<value>>

\* the loop of the base tokenizer's _add_time_events over events
RECURSIVE BaseAddTimeEvents(_, _)
BaseAddTimeEvents(s, events) ==
  IF events = <<>> THEN s.all_events
  ELSE BaseAddTimeEvents(AddTimeEvent(s, Head(events)), Tail(events))

\* self.base_tokenizer._add_time_events(events, time_division) from its
\* initial values
BaseTrackEvents(use_rests, events) ==
  BaseAddTimeEvents([ use_rests |-> use_rests, all_events |-> <<>>,
                      previous_tick |-> 0, previous_note_end |-> 0 ], events)

\* lines 91-94: a list of fewer than two events is copied, a longer one gets
\* the base tokenizer's time events
TrackEvents(use_rests, events) ==
  IF Len(events) < 2 THEN events ELSE BaseTrackEvents(use_rests, events)

\* MMM._add_time_events on the events of the next track: track_events[-1] of
\* an empty list is an IndexError
MMMAddTimeEvents(s) ==
  LET track_events == TrackEvents(s.use_rests, s.tracks[s.ti + 1])
  IN  IF Len(track_events) = 0 THEN [Raise(s, "IndexError") EXCEPT !.pc = "raised"]
      ELSE [s EXCEPT
              !.ti = @ + 1,
              !.sequences =
                 Append(@, <<TrackStartEvent>> \o track_events
                             \o <<TrackEndEvent(track_events[Len(track_events)].time + 1)>>)]

\* sum(sequences): the token sequences of the tracks one after the other
RECURSIVE SumSequences(_)
SumSequences(sequences) ==
  IF sequences = <<>> THEN <<>>
  ELSE EventTokens(Head(sequences)) \o SumSequences(Tail(sequences))

\* np.where(ids == vocab["Track_Start"]): the indices, from 0, of Track_Start
RECURSIVE TrackTokensIdx(_, _)
TrackTokensIdx(tokens, j) ==
  IF j > Len(tokens) THEN <<>>
  ELSE ( IF IsTrackToken(tokens[j], "Start") THEN <<j - 1>> ELSE <<>> )
         \o TrackTokensIdx(tokens, j + 1)

\* tokseq[idx_start:idx_end] for indices from 0 that are not negative
Slice(tokseq, idx_start, idx_end) ==
  LET end == IF idx_end < Len(tokseq) THEN idx_end ELSE Len(tokseq)
  IN  IF idx_start >= end THEN <<>> ELSE SubSeq(tokseq, idx_start + 1, end)

SplitTokseqPerTrack_NeverKeep(tokseq, keep_track_tokens) ==
  LET track_tokens_idx == TrackTokensIdx(tokseq, 1)
  IN  IF Len(track_tokens_idx) = 0 THEN <<tokseq>>
      ELSE [ i \in 1 .. Len(track_tokens_idx) |->
               Slice(tokseq, track_tokens_idx[i] + 1,
                     IF i = Len(track_tokens_idx) THEN Len(tokseq)
                     ELSE track_tokens_idx[i + 1] - 1) ]

\* split_tokseq_per_track; idx_end = None is the length of tokseq
SplitTokseqPerTrack(tokseq, keep_track_tokens) ==
  LET track_tokens_idx == TrackTokensIdx(tokseq, 1)
  IN  IF Len(track_tokens_idx) = 0 THEN <<tokseq>>
      ELSE [ i \in 1 .. Len(track_tokens_idx) |->
               LET idx_end == IF i = Len(track_tokens_idx) THEN Len(tokseq)
                              ELSE IF keep_track_tokens THEN track_tokens_idx[i + 1]
                              ELSE track_tokens_idx[i + 1] - 1
                   idx_start == IF keep_track_tokens THEN track_tokens_idx[i]
                                ELSE track_tokens_idx[i] + 1
               IN  Slice(tokseq, idx_start, idx_end) ]

\* the event lists of a track: none, one event, or a Program and one note
MMEventLists ==
  { <<>>, <<Event("Program", <<config.programs[1]>>, 0, 0)>> }
    \cup { <<Event("Tempo", <<120>>, t, 0)>> : t \in 0 .. MaxTick }
    \cup { <<Event("Program", <<config.programs[2]>>, 0, 0)>>
             \o NoteOnEvents(Note(start, end - start, config.pitch_range[1],
                                  config.velocities[1]))
             \o <<NoteOffEvent(Note(start, end - start, config.pitch_range[1],
                                    config.velocities[1]))>> :
           <<start, end>> \in { q \in (0 .. MaxTick) \X (0 .. MaxTick) :
                                  q[2] \in NoteEnds(q[1]) } }

MMInit ==
  /\ \E n \in 1 .. MaxTracks : \E tracks \in [1 .. n -> MMEventLists] :
       \E use_rests \in BOOLEAN :
         mm = [ pc |-> "encode", use_rests |-> use_rests, tracks |-> tracks, ti |-> 0,
                sequences |-> <<>>, tokseq |-> <<>>, keep_track_tokens |-> FALSE,
                tokseqs |-> <<>>, raised |-> "" ]
  /\ ml = Idle /\ fifo = NoFifo /\ te = Idle /\ rt = Idle /\ sd = Idle
  /\ se = Idle /\ er = Idle
  /\ ei = Idle /\ tk = Idle /\ pd = Idle /\ me = Idle
  /\ vo = Idle /\ sp = Idle /\ nd = Idle /\ tg = Idle

\* _add_time_events on the events of one track
MMAddTimeEvents ==
  /\ mm.pc = "encode" /\ mm.ti < Len(mm.tracks)
  /\ mm' = MMMAddTimeEvents(mm)
  /\ UNCHANGED <<ml, fifo, te, rt, sd, se, er, ei, tk, pd, me, vo, sp, nd, tg>>

\* _score_to_tokens: return sum(sequences)
MMConcatenate ==
  /\ mm.pc = "encode" /\ mm.ti = Len(mm.tracks)
  /\ mm' = [mm EXCEPT !.pc = "encoded", !.tokseq = SumSequences(mm.sequences)]
  /\ UNCHANGED <<ml, fifo, te, rt, sd, se, er, ei, tk, pd, me, vo, sp, nd, tg>>

\* split_tokseq_per_track on the encoded sequence: keep_track_tokens is True
\* in encode_token_ids and False in _tokens_to_score
MMSplit ==
  /\ mm.pc = "encoded"
  /\ \E keep_track_tokens \in BOOLEAN :
       mm' = [mm EXCEPT !.pc = "split", !.keep_track_tokens = keep_track_tokens,
                        !.tokseqs = SplitTokseqPerTrack(mm.tokseq, keep_track_tokens)]
  /\ UNCHANGED <<ml, fifo, te, rt, sd, se, er, ei, tk, pd, me, vo, sp, nd, tg>>

MMNext == MMAddTimeEvents \/ MMConcatenate \/ MMSplit

SpecMMM == MMInit /\ [][MMNext]_vars

-----------------------------------------------------------------------------
(* Properties of MMM *)

HasTrackToken(tokens) ==
  \E j \in DOMAIN tokens : IsTrackToken(tokens[j], "Start") \/ IsTrackToken(tokens[j], "End")

\* C18 as stated: split without the track tokens, the encoded sequence gives
\* one slice per track and no slice, the last included, holds a Track_Start
\* or a Track_End token.
C18_SlicesHaveNoTrackTokens ==
  (mm.pc = "split" /\ ~mm.keep_track_tokens) =>
    /\ Len(mm.tokseqs) = Len(mm.tracks)
    /\ \A i \in DOMAIN mm.tokseqs : ~HasTrackToken(mm.tokseqs[i])

RECURSIVE Concatenation(_)
Concatenation(seqs) ==
  IF seqs = <<>> THEN <<>> ELSE Head(seqs) \o Concatenation(Tail(seqs))

\* C19: split with the track tokens kept, the encoded sequence of N >= 1
\* tracks (N Track_Start and N Track_End tokens) gives exactly N slices, and
\* the slices put one after the other are the encoded sequence.
C19_KeptSlicesConcatenateBack ==
  (mm.pc = "split" /\ mm.keep_track_tokens) =>
    /\ Len(mm.tokseqs) = Len(mm.tracks)
    /\ Concatenation(mm.tokseqs) = mm.tokseq

\* two tracks of one note each were encoded and split with the track tokens
\* kept: each slice starts with Track_Start and ends with Track_End
C19_Witness ==
  /\ mm.pc = "split" /\ mm.keep_track_tokens
  /\ Len(mm.tracks) = 2 /\ Len(mm.tokseqs) = 2
  /\ \A i \in 1 .. 2 :
       /\ Len(mm.tracks[i]) > 1
       /\ IsTrackToken(mm.tokseqs[i][1], "Start")
       /\ IsTrackToken(mm.tokseqs[i][Len(mm.tokseqs[i])], "End")

\* C20 as stated: for every event list of a track, the empty list and a list
\* of one event included, _add_time_events returns Track_Start at tick 0, the
\* base tokenizer's events with their time events, and Track_End one tick
\* after the last event, with no other Track_Start or Track_End.
C20_TrackEventsWrapped ==
  /\ mm.pc # "raised"
  /\ mm.pc # "idle" =>
       \A i \in DOMAIN mm.sequences :
         LET events == mm.sequences[i]
             middle == SubSeq(events, 2, Len(events) - 1)
             given == mm.tracks[i]
         IN  /\ Len(events) >= 2
             /\ events[1] = TrackStartEvent
             /\ given # <<>> =>
                  events[Len(events)] = TrackEndEvent(given[Len(given)].time + 1)
             /\ middle = BaseTrackEvents(mm.use_rests, given)
             /\ ~HasTrackToken(EventTokens(middle))

-----------------------------------------------------------------------------
(* MMM.encode_token_ids                                                    *)
(*                                                                         *)
(* ei holds config.encode_ids_split, the merges of the trained model (the  *)
(* pairs of base ids that have a merged id), the sequences given as their  *)
(* base ids (seqs; is_list tells a list from one sequence), the number i   *)
(* of sequences encoded, and for every sequence encoded its ids after the  *)
(* call (ids, a merged id being the pair it stands for) and its            *)
(* are_ids_encoded.                                                        *)

\* base ids of the sequences of one call, all together
MaxIds == 4

\* the base ids the sequences are made of
EITokens ==
  { EventToken(TrackStartEvent), EventToken(TrackEndEvent(0)),
    Tok("NoteOn", <<config.pitch_range[1]>>) }

\* the parent's encode_token_ids on one sequence: every pair of the merge
\* table met from the left becomes its merged id
RECURSIVE EncodeTokenIds(_, _)
EncodeTokenIds(ids, merges) ==
  IF Len(ids) = 0 THEN <<>>
  ELSE IF Len(ids) >= 2 /\ <<ids[1], ids[2]>> \in merges
    THEN << <<ids[1], ids[2]>> >> \o EncodeTokenIds(SubSeq(ids, 3, Len(ids)), merges)
  ELSE << <<ids[1]>> >> \o EncodeTokenIds(Tail(ids), merges)

\* lines 209-219: one sequence, split per track with the track tokens, the
\* slices encoded, and their ids put back one after the other
EncodeSplitPerTrack(ids, merges) ==
  LET seqs_split == SplitTokseqPerTrack(ids, TRUE)
  IN  Concatenation([k \in DOMAIN seqs_split |-> EncodeTokenIds(seqs_split[k], merges)])

\* the index in seqs of the sequence the recursive call of line 204 is given
Subsequence_First(s) == 1

Subsequence(s) == s.i + 1

\* the sequence seqs[k] encoded by the call's branch for one sequence
EncodeSequence(s, k) ==
  [s EXCEPT !.i = @ + 1,
            !.ids = Append(@, IF s.encode_ids_split = "no"
                                THEN EncodeTokenIds(s.seqs[k], s.merges)
                                ELSE EncodeSplitPerTrack(s.seqs[k], s.merges)),
            !.are_ids_encoded = Append(@, TRUE)]

EIInit ==
  /\ \E n \in 0 .. MaxIds : \E tokens \in [1 .. n -> EITokens] :
       \E cut \in 0 .. n, is_list \in BOOLEAN, encode_ids_split \in {"no", "bar"} :
         \E merges \in { {} } \cup { {pair} : pair \in EITokens \X EITokens } :
           /\ ~is_list => cut = n
           /\ ei = [ pc |-> "call", encode_ids_split |-> encode_ids_split,
                     merges |-> merges, is_list |-> is_list,
                     seqs |-> IF is_list
                                THEN <<SubSeq(tokens, 1, cut), SubSeq(tokens, cut + 1, n)>>
                                ELSE <<tokens>>,
                     i |-> 0, ids |-> <<>>, are_ids_encoded |-> <<>> ]
  /\ ml = Idle /\ fifo = NoFifo /\ te = Idle /\ rt = Idle /\ sd = Idle
  /\ se = Idle /\ er = Idle /\ mm = Idle
  /\ tk = Idle /\ pd = Idle /\ me = Idle
  /\ vo = Idle /\ sp = Idle /\ nd = Idle /\ tg = Idle

\* lines 198-199: no split, the parent encodes what it is given, one sequence
\* or all the sequences of a list
EIParent ==
  /\ ei.pc = "call" /\ ei.encode_ids_split = "no"
  /\ ei' = [ei EXCEPT !.pc = "done", !.i = Len(ei.seqs),
                      !.ids = [k \in DOMAIN ei.seqs |->
                                 EncodeTokenIds(ei.seqs[k], ei.merges)],
                      !.are_ids_encoded = [k \in DOMAIN ei.seqs |-> TRUE]]
  /\ UNCHANGED <<ml, fifo, te, rt, sd, se, er, mm, tk, pd, me, vo, sp, nd, tg>>

\* lines 202-204: a list, one recursive call for each of its sequences
EISubsequence ==
  /\ ei.pc = "call" /\ ei.encode_ids_split # "no" /\ ei.is_list
  /\ ei.i < Len(ei.seqs)
  /\ ei' = EncodeSequence(ei, Subsequence(ei))
  /\ UNCHANGED <<ml, fifo, te, rt, sd, se, er, mm, tk, pd, me, vo, sp, nd, tg>>

\* lines 209-219: one sequence
EISequence ==
  /\ ei.pc = "call" /\ ei.encode_ids_split # "no" /\ ~ei.is_list
  /\ ei' = [EncodeSequence(ei, 1) EXCEPT !.pc = "done"]
  /\ UNCHANGED <<ml, fifo, te, rt, sd, se, er, mm, tk, pd, me, vo, sp, nd, tg>>

\* the end of the loop over a list
EIReturn ==
  /\ ei.pc = "call" /\ ei.encode_ids_split # "no" /\ ei.is_list
  /\ ei.i = Len(ei.seqs)
  /\ ei' = [ei EXCEPT !.pc = "done"]
  /\ UNCHANGED <<ml, fifo, te, rt, sd, se, er, mm, tk, pd, me, vo, sp, nd, tg>>

EINext == EIParent \/ EISubsequence \/ EISequence \/ EIReturn

SpecEncodeIds == EIInit /\ [][EINext]_vars

-----------------------------------------------------------------------------
(* Properties of MMM.encode_token_ids *)

\* tokens is made of spans Track_Start ... Track_End, one after the other
RECURSIVE IsTrackSpans(_, _)
IsTrackSpans(tokens, open) ==
  IF tokens = <<>> THEN ~open
  ELSE IF IsTrackToken(tokens[1], "Start") THEN ~open /\ IsTrackSpans(Tail(tokens), TRUE)
  ELSE IF IsTrackToken(tokens[1], "End") THEN open /\ IsTrackSpans(Tail(tokens), FALSE)
  ELSE open /\ IsTrackSpans(Tail(tokens), open)

\* an id of ids stands for base ids of two tracks: in a sequence of track
\* spans, a pair whose second base id is a Track_Start
MergedAcrossTracks(ids) ==
  \E k \in DOMAIN ids : Len(ids[k]) = 2 /\ IsTrackToken(ids[k][2], "Start")

\* C21 as stated: after encode_token_ids on a sequence of concatenated
\* tracks, with or without id splitting, no id stands for base ids of two
\* different tracks.
C21_NoMergeAcrossTracks ==
  ei.pc = "done" =>
    \A k \in DOMAIN ei.seqs :
      (IsTrackSpans(ei.seqs[k], FALSE) /\ ei.seqs[k] # <<>>) =>
        ~MergedAcrossTracks(ei.ids[k])

\* C22 as stated: for every sequence of base ids, with ids before the first
\* Track_Start or without any Track_Start too, the ids after
\* encode_token_ids decode to the sequence given, and are_ids_encoded is set.
C22_EncodedIdsDecodeBack ==
  ei.pc = "done" =>
    \A k \in DOMAIN ei.seqs :
      /\ DecodeBpe(ei.ids[k]) = ei.seqs[k]
      /\ ei.are_ids_encoded[k]

\* the ids of the sequence seq when encode_token_ids is given it alone
EncodedAlone(seq) ==
  IF ei.encode_ids_split = "no" THEN EncodeTokenIds(seq, ei.merges)
  ELSE EncodeSplitPerTrack(seq, ei.merges)

-----------------------------------------------------------------------------
(* MMM.encode, preprocess_score and _score_to_tokens                       *)
(*                                                                         *)
(* tk holds the attributes of one MMM tokenizer that encode writes         *)
(* (one_token_stream, concatenate_track_sequences) and the encode calls    *)
(* running on it.  A call holds its argument (concatenate), its position   *)
(* (pc), the local previous_value of preprocess_score, the value of        *)
(* one_token_stream the parent's preprocess_score and _score_to_tokens     *)
(* found (seen_preprocess, seen_tokens), and what it returned.  Every      *)
(* statement that reads or writes an attribute is one step of its call;    *)
(* the steps of the calls interleave.                                      *)

\* encode calls running on the tokenizer
MaxCalls == 2

EncodeCall(concatenate_track_sequences) ==
  [ pc |-> "encode", concatenate |-> concatenate_track_sequences,
    previous_value |-> FALSE, seen_preprocess |-> FALSE, seen_tokens |-> FALSE,
    returned |-> "" ]

\* the position after each statement, in the order of a call
NextStatement(pc) ==
  CASE pc = "encode" -> "previous_value"
    [] pc = "previous_value" -> "unset_preprocess"
    [] pc = "unset_preprocess" -> "preprocess"
    [] pc = "preprocess" -> "restore"
    [] pc = "restore" -> "unset_tokens"
    [] pc = "unset_tokens" -> "tokens"
    [] pc = "tokens" -> "set"
    [] pc = "set" -> "return"
    [] pc = "return" -> "done"

\* the call c makes its step; fails tells whether the parent's method of
\* lines 157 and 178 raises
EncodeStatement(s, c, fails) ==
  LET call == s.calls[c]
      next == [s EXCEPT !.calls[c].pc = NextStatement(call.pc)]
  IN  CASE call.pc = "encode" ->
             [next EXCEPT !.concatenate_track_sequences = call.concatenate]
        [] call.pc = "previous_value" ->
             [next EXCEPT !.calls[c].previous_value = s.one_token_stream]
        [] call.pc \in {"unset_preprocess", "unset_tokens"} ->
             [next EXCEPT !.one_token_stream = FALSE]
        [] call.pc = "preprocess" ->
             IF fails THEN [s EXCEPT !.calls[c].pc = "raised"]
             ELSE [next EXCEPT !.calls[c].seen_preprocess = s.one_token_stream]
        [] call.pc = "restore" ->
             [next EXCEPT !.one_token_stream = call.previous_value]
        [] call.pc = "tokens" ->
             IF fails THEN [s EXCEPT !.calls[c].pc = "raised"]
             ELSE [next EXCEPT !.calls[c].seen_tokens = s.one_token_stream]
        [] call.pc = "set" ->
             [next EXCEPT !.one_token_stream = TRUE]
        [] call.pc = "return" ->
             [next EXCEPT !.calls[c].returned =
                IF s.concatenate_track_sequences THEN "sum" ELSE "list"]

TKInit ==
  /\ \E n \in 1 .. MaxCalls : \E arguments \in [1 .. n -> BOOLEAN] :
       tk = [ pc |-> "ready", one_token_stream |-> TRUE,
              concatenate_track_sequences |-> TRUE,
              calls |-> [c \in 1 .. n |-> EncodeCall(arguments[c])] ]
  /\ ml = Idle /\ fifo = NoFifo /\ te = Idle /\ rt = Idle /\ sd = Idle
  /\ se = Idle /\ er = Idle /\ mm = Idle
  /\ ei = Idle /\ pd = Idle /\ me = Idle
  /\ vo = Idle /\ sp = Idle /\ nd = Idle /\ tg = Idle

\* a statement of encode, preprocess_score or _score_to_tokens that only reads
\* or writes attributes
TKStatement ==
  /\ tk.pc = "ready"
  /\ \E c \in DOMAIN tk.calls :
       /\ tk.calls[c].pc \in {"encode", "previous_value", "unset_preprocess", "restore",
                              "unset_tokens", "set", "return"}
       /\ tk' = EncodeStatement(tk, c, FALSE)
  /\ UNCHANGED <<ml, fifo, te, rt, sd, se, er, mm, ei, pd, me, vo, sp, nd, tg>>

\* super().preprocess_score(score) and super()._score_to_tokens(score): they
\* return, or raise
TKParent ==
  /\ tk.pc = "ready"
  /\ \E c \in DOMAIN tk.calls : \E fails \in BOOLEAN :
       /\ tk.calls[c].pc \in {"preprocess", "tokens"}
       /\ tk' = EncodeStatement(tk, c, fails)
  /\ UNCHANGED <<ml, fifo, te, rt, sd, se, er, mm, ei, pd, me, vo, sp, nd, tg>>

TKNext == TKStatement \/ TKParent

SpecEncodeCalls == TKInit /\ [][TKNext]_vars

-----------------------------------------------------------------------------
(* Properties of MMM.encode *)

\* the call c has returned what it returns when it runs alone
AsAlone(call) ==
  /\ ~call.seen_preprocess
  /\ ~call.seen_tokens
  /\ call.returned = IF call.concatenate THEN "sum" ELSE "list"

\* C24 as stated: encode calls running at the same time on one tokenizer each
\* return what they return alone; no call finds the
\* concatenate_track_sequences or the one_token_stream of another call.
C24_ConcurrentCallsAsAlone ==
  tk.pc = "ready" =>
    \A c \in DOMAIN tk.calls :
      /\ tk.calls[c].pc = "done" => AsAlone(tk.calls[c])
      /\ tk.calls[c].pc \in {"restore", "unset_tokens"} => ~tk.calls[c].seen_preprocess
      /\ tk.calls[c].pc \in {"set", "return"} => ~tk.calls[c].seen_tokens

\* C25 as stated: when the one encode call on the tokenizer has raised in
\* preprocess_score or in the parent's _score_to_tokens, one_token_stream has
\* the value it had before the call.
C25_FlagRestoredAfterFailure ==
  (tk.pc = "ready" /\ Len(tk.calls) = 1 /\ tk.calls[1].pc = "raised") =>
    tk.one_token_stream = TRUE


-----------------------------------------------------------------------------
(* MMM._tweak_config_before_creating_voc                                   *)
(*                                                                         *)
(* tk holds the configuration of an MMM tokenizer under construction:      *)
(* additional_params (a dictionary that has the key "base_tokenizer" or    *)
(* not), special_tokens, the list given by the caller (given), and the     *)
(* base tokenizer once it is created (None before).  The special tokens    *)
(* of a configuration are all different.                                   *)

\* miditok.constants.MMM_COMPATIBLE_TOKENIZERS
MMM_COMPATIBLE_TOKENIZERS == {"TSD", "REMI", "MIDILike"}

TokenizerNames == MMM_COMPATIBLE_TOKENIZERS \cup {"Octuple"}

SpecialTokens == {"PAD", "BOS", "Track_Start", "Track_End"}

RECURSIVE Count(_, _)
Count(list, x) ==
  IF list = <<>> THEN 0
  ELSE (IF Head(list) = x THEN 1 ELSE 0) + Count(Tail(list), x)

AddSpecialToken_Always(special_tokens, token) == Append(special_tokens, token)

\* lines 68-69
AddSpecialToken(special_tokens, token) ==
  IF Count(special_tokens, token) = 0 THEN Append(special_tokens, token)
  ELSE special_tokens

\* lines 51-64: the error raised, if any
BaseTokenizerError(additional_params) ==
  IF "base_tokenizer" \notin DOMAIN additional_params THEN "ValueError"
  ELSE IF additional_params["base_tokenizer"] \notin MMM_COMPATIBLE_TOKENIZERS
       THEN "ValueError"
       ELSE ""

TWInit ==
  /\ \E chosen \in SUBSET SpecialTokens :
     \E special_tokens \in [1 .. Cardinality(chosen) -> chosen] :
     \E keys \in SUBSET {"base_tokenizer"} :
     \E tokenizer_name \in TokenizerNames :
       /\ \A x \in chosen : Count(special_tokens, x) = 1
       /\ tk = [ pc |-> "tweak",
                 additional_params |-> [k \in keys |-> tokenizer_name],
                 special_tokens |-> special_tokens, given |-> special_tokens,
                 use_programs |-> FALSE, concatenate_track_sequences |-> FALSE,
                 base_tokenizer |-> None, raised |-> "" ]
  /\ ml = Idle /\ fifo = NoFifo /\ te = Idle /\ rt = Idle /\ sd = Idle
  /\ se = Idle /\ er = Idle /\ mm = Idle
  /\ ei = Idle /\ pd = Idle /\ me = Idle
  /\ vo = Idle /\ sp = Idle /\ nd = Idle /\ tg = Idle

\* lines 44-48
TWFlags ==
  /\ tk.pc = "tweak"
  /\ tk' = [tk EXCEPT !.pc = "check", !.use_programs = TRUE,
                      !.concatenate_track_sequences = TRUE]
  /\ UNCHANGED <<ml, fifo, te, rt, sd, se, er, mm, ei, pd, me, vo, sp, nd, tg>>

\* lines 51-64
TWCheck ==
  /\ tk.pc = "check"
  /\ tk' = IF BaseTokenizerError(tk.additional_params) # ""
           THEN [tk EXCEPT !.pc = "raised",
                           !.raised = BaseTokenizerError(tk.additional_params)]
           ELSE [tk EXCEPT !.pc = "Track_Start"]
  /\ UNCHANGED <<ml, fifo, te, rt, sd, se, er, mm, ei, pd, me, vo, sp, nd, tg>>

\* lines 67-69, one token of the loop
TWSpecialToken ==
  /\ tk.pc \in {"Track_Start", "Track_End"}
  /\ tk' = [tk EXCEPT !.pc = IF tk.pc = "Track_Start" THEN "Track_End" ELSE "create",
                      !.special_tokens = AddSpecialToken(@, tk.pc)]
  /\ UNCHANGED <<ml, fifo, te, rt, sd, se, er, mm, ei, pd, me, vo, sp, nd, tg>>

\* lines 72-76
TWCreate ==
  /\ tk.pc = "create"
  /\ tk' = [tk EXCEPT !.pc = "done",
                      !.base_tokenizer =
                         << [ name |-> tk.additional_params["base_tokenizer"],
                              special_tokens |-> tk.special_tokens,
                              use_programs |-> TRUE ] >>]
  /\ UNCHANGED <<ml, fifo, te, rt, sd, se, er, mm, ei, pd, me, vo, sp, nd, tg>>

TWNext == TWFlags \/ TWCheck \/ TWSpecialToken \/ TWCreate

SpecTweak == TWInit /\ [][TWNext]_vars

-----------------------------------------------------------------------------
(* Properties of MMM._tweak_config_before_creating_voc *)

NoCompatibleBase ==
  \/ "base_tokenizer" \notin DOMAIN tk.additional_params
  \/ tk.additional_params["base_tokenizer"] \notin MMM_COMPATIBLE_TOKENIZERS

\* C26: without a base tokenizer name, or with a name that is not compatible,
\* the configuration ends in an error, with no base tokenizer created and the
\* special tokens as they were given; with a compatible name it ends with
\* Track_Start and Track_End each exactly once in the special tokens.
C26_ErrorBeforeBaseAndSpecialTokens ==
  tk.pc \in {"tweak", "check", "raised", "Track_Start", "Track_End", "create", "done"} =>
    /\ NoCompatibleBase => tk.pc \in {"tweak", "check", "raised"}
    /\ tk.pc = "raised" =>
         /\ NoCompatibleBase /\ tk.raised = "ValueError"
         /\ tk.base_tokenizer = None
         /\ tk.special_tokens = tk.given
    /\ tk.pc \in {"tweak", "check"} => tk.base_tokenizer = None /\ tk.special_tokens = tk.given
    /\ tk.pc = "done" =>
         /\ Count(tk.special_tokens, "Track_Start") = 1
         /\ Count(tk.special_tokens, "Track_End") = 1
         /\ tk.base_tokenizer # None

\* a configuration with a name that is not compatible, and special tokens that
\* hold one of the two delimiters, has raised
C26_Witness ==
  /\ tk.pc = "raised"
  /\ "base_tokenizer" \in DOMAIN tk.additional_params
  /\ Count(tk.given, "Track_End") = 1 /\ Count(tk.given, "Track_Start") = 0


-----------------------------------------------------------------------------
(* MIDILike._tokens_to_midi on Tempo, TimeSig, Pedal and PedalOff tokens   *)
(*                                                                         *)
(* pd is a call of _tokens_to_midi on sequences of TimeShift, Tempo,       *)
(* TimeSig, Pedal, PedalOff and Duration tokens.  It holds the tracking    *)
(* variables of the loop (si, current_tick, current_program,               *)
(* active_pedals), the results (tempo_changes, time_signature_changes,     *)
(* and pedals: each pedal with the track it was appended to), the token    *)
(* of the coming iteration (token), the token of the last iteration        *)
(* (last) and the number of tokens decoded so far (ntokens).               *)

\* the values of config.beat_res, for durations of resolution 2
beat_res == << config.durations[1][3] >>

MaxBeatRes == CHOOSE m \in Range(beat_res) : \A x \in Range(beat_res) : x <= m

InvalidTimeDivision_Never(time_division) == FALSE

\* line 145
InvalidTimeDivision(time_division) == time_division % MaxBeatRes # 0

FirstSequence_Any(si) == TRUE

\* the second operand of the tests of lines 271 and 273
FirstSequence(si) == si = 0

PedalOpens_Always(active_pedals, pedal_prog) == TRUE

\* line 294
PedalOpens(active_pedals, pedal_prog) == pedal_prog \notin DOMAIN active_pedals

\* tracks[pedal_prog].pedals.append(new_pedal) after check_inst(pedal_prog), or
\* current_instrument.pedals.append(new_pedal): track is the key of tracks, or
\* the index of the sequence of current_instrument
AddPedal(d, pedal_prog, time, duration) ==
  [d EXCEPT !.pedals =
     Append(@, [ track |-> IF d.one_token_stream THEN pedal_prog ELSE d.si,
                 time |-> time, duration |-> duration ])]

\* lines 277-279 and 297-299
PedalProg(d, tok_val) == IF d.use_programs THEN ParseInt(tok_val) ELSE d.current_program

\* one iteration of the decoding loop (lines 221-322) on seq[ti] = token
DecodeControlToken(d, token, has_next, next_token) ==
  LET tok_type == token.type
      tok_val == token.value
  IN  IF tok_type = "Tempo" /\ FirstSequence(d.si)
        THEN [d EXCEPT !.tempo_changes =
                Append(@, [time |-> d.current_tick, tempo |-> ParseInt(tok_val)])]
      ELSE IF tok_type = "TimeSig" /\ FirstSequence(d.si)
        THEN [d EXCEPT !.time_signature_changes =
                Append(@, [ time |-> d.current_tick,
                            numerator |-> tok_val[1], denominator |-> tok_val[2] ])]
      ELSE IF tok_type = "Pedal"
        THEN LET pedal_prog == PedalProg(d, tok_val)
             IN  IF d.sustain_pedal_duration /\ has_next
                   THEN IF next_token.type = "Duration"
                          THEN AddPedal(d, pedal_prog, d.current_tick,
                                        TokenDurationToTicks(next_token.value,
                                                             d.time_division))
                          ELSE d
                   ELSE IF PedalOpens(d.active_pedals, pedal_prog)
                          THEN [d EXCEPT !.active_pedals =
                                            (pedal_prog :> d.current_tick) @@ @]
                          ELSE d
      ELSE IF tok_type = "PedalOff"
        THEN LET pedal_prog == PedalProg(d, tok_val)
             IN  IF pedal_prog \in DOMAIN d.active_pedals
                   THEN LET onset == d.active_pedals[pedal_prog]
                            d1 == AddPedal(d, pedal_prog, onset, d.current_tick - onset)
                        IN  [d1 EXCEPT !.active_pedals =
                               [p \in DOMAIN d.active_pedals \ {pedal_prog} |->
                                  d.active_pedals[p]]]
                   ELSE d
      ELSE DecodeToken(d, token, has_next, next_token)

\* the tokens of the decoded sequences
PDTokens(use_programs) ==
  { Tok("TimeShift", config.durations[2]), Tok("Duration", config.durations[1]),
    Tok("Tempo", <<120>>), Tok("TimeSig", <<4, 4>>) }
    \cup { Tok(type, <<p>>) : type \in {"Pedal", "PedalOff"},
                              p \in IF use_programs THEN Range(config.programs)
                                    ELSE {config.programs[1]} }

PDInit ==
  /\ \E one_token_stream \in BOOLEAN, use_programs \in BOOLEAN :
     \E sustain_pedal_duration \in BOOLEAN :
     \E time_division \in {config.time_division, config.time_division + 1} :
     \E nseq \in 1 .. MaxSeqs :
     \E programs \in {None, [i \in 1 .. nseq |-> <<config.programs[1 + (i % 2)], FALSE>>]} :
       /\ one_token_stream => (nseq = 1 /\ use_programs /\ programs = None)
       /\ pd = [ pc |-> "call", one_token_stream |-> one_token_stream,
                 use_programs |-> use_programs,
                 sustain_pedal_duration |-> sustain_pedal_duration,
                 time_division |-> time_division, nseq |-> nseq,
                 programs |-> programs,
                 si |-> 0, ntokens |-> 0, token |-> NoToken, last |-> NoToken,
                 current_tick |-> 0, current_program |-> 0,
                 active_pedals |-> <<>>, pedals |-> <<>>,
                 tempo_changes |-> <<>>, time_signature_changes |-> <<>>,
                 returned |-> FALSE, raised |-> "" ]
  /\ ml = Idle /\ fifo = NoFifo /\ te = Idle /\ rt = Idle /\ sd = Idle
  /\ se = Idle /\ er = Idle /\ mm = Idle
  /\ ei = Idle /\ tk = Idle /\ me = Idle
  /\ vo = Idle /\ sp = Idle /\ nd = Idle /\ tg = Idle

\* lines 137-156
PDCall ==
  /\ pd.pc = "call"
  /\ pd' = IF InvalidTimeDivision(pd.time_division)
             THEN [Raise(pd, "ValueError") EXCEPT !.pc = "raised"]
             ELSE [pd EXCEPT !.pc = "seq_start"]
  /\ UNCHANGED <<ml, fifo, te, rt, sd, se, er, mm, ei, tk, me, vo, sp, nd, tg>>

\* the position after the last token of sequence si
AfterSequence(d) ==
  [d EXCEPT !.si = @ + 1, !.token = NoToken,
            !.pc = IF d.si + 1 < d.nseq THEN "seq_start" ELSE "finish"]

\* lines 200-218: the tracking variables of a sequence, and its first token
PDStartSeq ==
  /\ pd.pc = "seq_start"
  /\ \E token \in PDTokens(pd.use_programs) \cup {NoToken} :
       /\ pd.ntokens + 1 > MaxTokens => token = NoToken
       /\ LET hint == ~pd.one_token_stream /\ pd.programs # None
              d == [pd EXCEPT !.current_tick = 0,
                              !.current_program =
                                 IF hint THEN pd.programs[pd.si + 1][1] ELSE 0,
                              !.active_pedals = <<>>,
                              !.token = token, !.pc = "loop"]
          IN  pd' = IF token = NoToken THEN AfterSequence(d) ELSE d
  /\ UNCHANGED <<ml, fifo, te, rt, sd, se, er, mm, ei, tk, me, vo, sp, nd, tg>>

\* lines 221-322: one iteration; next_token is seq[ti + 1]
PDDecodeToken ==
  /\ pd.pc = "loop"
  /\ \E next_token \in PDTokens(pd.use_programs) \cup {NoToken} :
       /\ pd.ntokens + 2 > MaxTokens => next_token = NoToken
       /\ LET d == [DecodeControlToken(pd, pd.token, next_token # NoToken, next_token)
                      EXCEPT !.ntokens = @ + 1, !.last = pd.token, !.token = next_token]
          IN  pd' = IF next_token = NoToken THEN AfterSequence(d) ELSE d
  /\ UNCHANGED <<ml, fifo, te, rt, sd, se, er, mm, ei, tk, me, vo, sp, nd, tg>>

\* lines 339-345
PDFinish ==
  /\ pd.pc = "finish"
  /\ pd' = [pd EXCEPT !.pc = "done", !.returned = TRUE]
  /\ UNCHANGED <<ml, fifo, te, rt, sd, se, er, mm, ei, tk, me, vo, sp, nd, tg>>

PDNext == PDCall \/ PDStartSeq \/ PDDecodeToken \/ PDFinish

SpecPedals == PDInit /\ [][PDNext]_vars


-----------------------------------------------------------------------------
(* Properties of MIDILike._tokens_to_midi on tempo, time signature and     *)
(* pedal tokens                                                            *)

\* C27: a call whose time division is not divisible by the largest value of
\* beat_res raises an error: it decodes no token and returns no score.
C27_InvalidTimeDivisionRaisesFirst ==
  (pd.pc # "idle" /\ pd.time_division % MaxBeatRes # 0) =>
    /\ pd.pc \in {"call", "raised"}
    /\ pd.pc = "raised" => pd.raised = "ValueError"
    /\ pd.ntokens = 0 /\ pd.last = NoToken
    /\ ~pd.returned

C27_Witness ==
  /\ pd.pc = "raised" /\ pd.raised = "ValueError"
  /\ pd.time_division % MaxBeatRes # 0

\* C28: a Tempo or TimeSig token of the first sequence adds one change at the
\* current tick; in a later sequence it adds nothing and leaves the tick
\* where it is; no other token adds a tempo or time signature change.
C28_TempoTimeSigOfFirstSequenceOnly ==
  [][ pd.pc = "loop" /\ pd'.pc # "idle" =>
        /\ pd.token.type = "Tempo" /\ pd.si = 0 =>
             /\ Len(pd'.tempo_changes) = Len(pd.tempo_changes) + 1
             /\ pd'.tempo_changes[Len(pd'.tempo_changes)].time = pd.current_tick
             /\ pd'.time_signature_changes = pd.time_signature_changes
        /\ pd.token.type = "TimeSig" /\ pd.si = 0 =>
             /\ Len(pd'.time_signature_changes) = Len(pd.time_signature_changes) + 1
             /\ pd'.time_signature_changes[Len(pd'.time_signature_changes)].time
                  = pd.current_tick
             /\ pd'.tempo_changes = pd.tempo_changes
        /\ ~(pd.token.type \in {"Tempo", "TimeSig"} /\ pd.si = 0) =>
             /\ pd'.tempo_changes = pd.tempo_changes
             /\ pd'.time_signature_changes = pd.time_signature_changes
        /\ pd.token.type \in {"Tempo", "TimeSig"} =>
             /\ pd'.current_tick = pd.current_tick
             /\ pd'.pedals = pd.pedals /\ pd'.active_pedals = pd.active_pedals
    ]_vars

\* a Tempo token was decoded in the second sequence, after a time shift, when
\* the first sequence had added a tempo change
C28_Witness ==
  /\ pd.pc \in {"loop", "seq_start", "finish"}
  /\ pd.last.type = "Tempo"
  /\ pd.si >= 1 /\ pd.token # NoToken
  /\ pd.current_tick > 0
  /\ Len(pd.tempo_changes) = 1

\* C29: without pedal durations, a Pedal token for a program whose pedal is
\* open changes nothing, and for another program opens its pedal at the
\* current tick; a PedalOff token for a program whose pedal is open adds one
\* pedal from the onset to the current tick and closes it, and for another
\* program changes nothing.  The open pedals of other programs stay as they
\* are.
C29_OnePedalOpenPerProgram ==
  [][ (pd.pc = "loop" /\ pd'.pc # "idle" /\ ~pd.sustain_pedal_duration
         /\ pd.token.type \in {"Pedal", "PedalOff"}) =>
        LET pedal_prog == IF pd.use_programs THEN pd.token.value[1]
                          ELSE pd.current_program
            open == pedal_prog \in DOMAIN pd.active_pedals
            others == DOMAIN pd.active_pedals \ {pedal_prog}
        IN  /\ \A p \in others :
                 p \in DOMAIN pd'.active_pedals
                   /\ pd'.active_pedals[p] = pd.active_pedals[p]
            /\ DOMAIN pd'.active_pedals \subseteq DOMAIN pd.active_pedals \cup {pedal_prog}
            /\ pd.token.type = "Pedal" =>
                 /\ pd'.pedals = pd.pedals
                 /\ pedal_prog \in DOMAIN pd'.active_pedals
                 /\ pd'.active_pedals[pedal_prog] =
                      IF open THEN pd.active_pedals[pedal_prog] ELSE pd.current_tick
            /\ pd.token.type = "PedalOff" /\ open =>
                 /\ Len(pd'.pedals) = Len(pd.pedals) + 1
                 /\ SubSeq(pd'.pedals, 1, Len(pd.pedals)) = pd.pedals
                 /\ pd'.pedals[Len(pd'.pedals)].time = pd.active_pedals[pedal_prog]
                 /\ pd'.pedals[Len(pd'.pedals)].duration
                      = pd.current_tick - pd.active_pedals[pedal_prog]
                 /\ pedal_prog \notin DOMAIN pd'.active_pedals
            /\ pd.token.type = "PedalOff" /\ ~open =>
                 /\ pd'.pedals = pd.pedals
                 /\ pd'.active_pedals = pd.active_pedals
    ]_vars

\* a Pedal token was decoded for a program whose pedal was opened at an
\* earlier tick, and is still open from that tick
C29_Witness ==
  /\ pd.pc = "loop" /\ ~pd.sustain_pedal_duration
  /\ pd.last.type = "Pedal" /\ pd.token.type = "PedalOff"
  /\ LET pedal_prog == IF pd.use_programs THEN pd.last.value[1] ELSE pd.current_program
     IN  /\ pedal_prog \in DOMAIN pd.active_pedals
         /\ pd.active_pedals[pedal_prog] < pd.current_tick
         /\ pd.token.value = pd.last.value


-----------------------------------------------------------------------------
(* MMM._tokens_errors                                                      *)
(*                                                                         *)
(* me is a call of _tokens_errors on a list of tokens.  It holds the       *)
(* variables of the loop (i, err) and the runs of tokens handed to         *)
(* base_tokenizer._tokens_errors so far (passed), each with the index      *)
(* (from 1) of the Track_Start before it.                                  *)

\* the tokens of the scored lists
METokens ==
  { EventToken(TrackStartEvent), EventToken(TrackEndEvent(0)),
    Tok("NoteOn", <<config.pitch_range[1]>>), Tok("Velocity", <<config.velocities[1]>>) }

\* base_tokenizer._tokens_errors(tokens): one error for each token whose type
\* is not a permitted successor of the type of the token before it
BaseTokensErrors(tokens) ==
  Cardinality({ i \in 2 .. Len(tokens) :
                  \/ tokens[i - 1].type \notin DOMAIN tokens_types_graph
                  \/ tokens[i].type \notin tokens_types_graph[tokens[i - 1].type] })

\* the inner scan left out (j stays at i): a mutant of NextTrackEnd
NextTrackEnd_NoScan(tokens, j) == j

\* lines 323-325: the index (from 0) of the first Track_End from j on, or
\* len(tokens)
RECURSIVE NextTrackEnd(_, _)
NextTrackEnd(tokens, j) ==
  IF j < Len(tokens) /\ ~IsTrackToken(tokens[j + 1], "End")
    THEN NextTrackEnd(tokens, j + 1)
    ELSE j

\* one iteration of the loop of lines 318-329
ScanToken(s) ==
  IF ~IsTrackToken(s.tokens[s.i + 1], "Start")
    THEN [s EXCEPT !.i = @ + 1]
    ELSE LET j == NextTrackEnd(s.tokens, s.i)
             run == Slice(s.tokens, s.i + 1, j)
         IN  [s EXCEPT !.err = @ + BaseTokensErrors(run),
                       !.passed = Append(@, [start |-> s.i + 1, tokens |-> run]),
                       !.i = j]

MEInit ==
  /\ \E n \in 0 .. MaxTokens : \E tokens \in [1 .. n -> METokens] :
       me = [ pc |-> "loop", tokens |-> tokens, i |-> 0, err |-> 0,
              passed |-> <<>>, returned |-> None ]
  /\ ml = Idle /\ fifo = NoFifo /\ te = Idle /\ rt = Idle /\ sd = Idle
  /\ se = Idle /\ er = Idle /\ mm = Idle
  /\ ei = Idle /\ tk = Idle /\ pd = Idle
  /\ vo = Idle /\ sp = Idle /\ nd = Idle /\ tg = Idle

MEScan ==
  /\ me.pc = "loop" /\ me.i < Len(me.tokens)
  /\ me' = ScanToken(me)
  /\ UNCHANGED <<ml, fifo, te, rt, sd, se, er, mm, ei, tk, pd, vo, sp, nd, tg>>

MEReturn ==
  /\ me.pc = "loop" /\ me.i >= Len(me.tokens)
  /\ me' = [me EXCEPT !.pc = "done", !.returned = <<me.err>>]
  /\ UNCHANGED <<ml, fifo, te, rt, sd, se, er, mm, ei, tk, pd, vo, sp, nd, tg>>

MENext == MEScan \/ MEReturn

SpecMMMErrors == MEInit /\ [][MENext]_vars

\* the call runs on until it returns: nothing else is scheduled against the loop
SpecMMMErrorsLive == MEInit /\ [][MENext]_vars /\ WF_vars(MENext)

-----------------------------------------------------------------------------
(* Properties of MMM._tokens_errors *)

\* the spans of tokens: <<k, m>> with a Track_Start at k and the next
\* Track_End at m (indices from 1)
TrackSpans(tokens) ==
  { <<k, m>> \in (DOMAIN tokens) \X (DOMAIN tokens) :
      /\ k < m
      /\ IsTrackToken(tokens[k], "Start") /\ IsTrackToken(tokens[m], "End")
      /\ \A x \in (k + 1) .. (m - 1) : ~IsTrackToken(tokens[x], "End") }

\* the sum of the base tokenizer's errors over the spans that start at k or after
RECURSIVE SpanErrors(_, _)
SpanErrors(tokens, k) ==
  IF k > Len(tokens) THEN 0
  ELSE (IF \E m \in DOMAIN tokens : <<k, m>> \in TrackSpans(tokens)
          THEN LET m == CHOOSE m \in DOMAIN tokens : <<k, m>> \in TrackSpans(tokens)
               IN  BaseTokensErrors(SubSeq(tokens, k + 1, m - 1))
          ELSE 0)
       + SpanErrors(tokens, k + 1)

\* C30 as stated: the number returned is the sum of the base tokenizer's
\* errors over the runs between each Track_Start and the next Track_End, and
\* every run handed to the base tokenizer is one of these runs.
C30_ErrorsOfTrackSpansOnly ==
  me.pc = "done" =>
    /\ me.returned = <<SpanErrors(me.tokens, 1)>>
    /\ \A r \in DOMAIN me.passed :
         <<me.passed[r].start, me.passed[r].start + Len(me.passed[r].tokens) + 1>>
            \in TrackSpans(me.tokens)


\* an iteration of the loop moves the scan index forward
ScanIndexIncreases ==
  (me.pc = "loop" /\ me'.pc = "loop") => me'.i > me.i

\* a Track_Start at k (from 1) with no Track_End after it
Unmatched(tokens, k) ==
  /\ IsTrackToken(tokens[k], "Start")
  /\ \A m \in (k + 1) .. Len(tokens) : ~IsTrackToken(tokens[m], "End")

\* C39: on every finite list of tokens the scan of MMM._tokens_errors ends
\* with the method returning, and the scan index strictly increases at every
\* iteration, also when a Track_Start has no Track_End after it, when a
\* Track_Start follows another before any Track_End, and when the last token
\* is a Track_Start.
C39_ScanTerminates ==
  /\ <>(me.pc = "done")
  /\ [][ScanIndexIncreases]_vars

\* the method has returned on a list whose last token is a Track_Start, with
\* an earlier Track_Start that has no Track_End after it either
C39_Witness ==
  /\ me.pc = "done"
  /\ Len(me.tokens) >= 2
  /\ Unmatched(me.tokens, Len(me.tokens))
  /\ \E k \in 1 .. (Len(me.tokens) - 1) : Unmatched(me.tokens, k)

-----------------------------------------------------------------------------
(* MMM._create_base_vocabulary and MMM.add_to_vocab                        *)
(*                                                                         *)
(* vo holds the vocabulary of an MMM tokenizer (vocab) and of its base     *)
(* tokenizer (base_vocab), each the list of its tokens in the order of     *)
(* their ids (the token at position k has id k - 1), the special tokens    *)
(* of the configuration, and the number of add_to_vocab calls made.        *)

\* add_to_vocab calls on one tokenizer
MaxAdded == 3

\* the id of token in vocab
TokenId(vocab, token) == (CHOOSE k \in DOMAIN vocab : vocab[k] = token) - 1

InVocab(vocab, token) == \E k \in DOMAIN vocab : vocab[k] = token

\* list.remove(x)
RECURSIVE Remove(_, _)
Remove(list, x) ==
  IF list = <<>> THEN <<>>
  ELSE IF Head(list) = x THEN Tail(list)
  ELSE <<Head(list)>> \o Remove(Tail(list), x)

RECURSIVE RemoveAll(_, _)
RemoveAll(list, xs) ==
  IF xs = <<>> THEN list ELSE RemoveAll(Remove(list, Head(xs)), Tail(xs))

\* the vocabulary the parent class builds: the special tokens, then the
\* tokens of _create_base_vocabulary
CreateVocabulary(special_tokens, base_voc) == special_tokens \o base_voc

\* lines 292-295
MMMCreateBaseVocabulary(base_vocab, special_tokens) ==
  RemoveAll(base_vocab, special_tokens)

\* the parent's add_to_vocab: the id of a new token is the length of the
\* vocabulary; the ids of the tokens of the vocabulary are never reassigned
AddToVocab(vocab, token) ==
  IF InVocab(vocab, token) THEN vocab ELSE Append(vocab, token)

MMMAddToVocab_ParentOnly(s, token) ==
  [s EXCEPT !.vocab = AddToVocab(@, token), !.added = @ + 1]

\* lines 355-362
MMMAddToVocab(s, token) ==
  [s EXCEPT !.base_vocab = AddToVocab(@, token),
            !.vocab = AddToVocab(@, token),
            !.added = @ + 1]

\* the vocabulary of the base tokenizer without its special tokens
BaseVoc == << "NoteOn_60", "Velocity_64", "TimeShift_1.0.2", "Program_0" >>

\* the tokens added: new ones, one of the vocabulary, and a delimiter
AddedTokens ==
  { "Program_1", "NoteOn_61", "PitchBend_0", "Genre_Rock", "Velocity_64", "Track_End" }

VOInit ==
  /\ \E special_tokens \in { <<"PAD", "Track_Start", "Track_End">>,
                             <<"Track_Start", "PAD", "Track_End">>,
                             <<"Track_End", "Track_Start">>,
                             <<"PAD", "BOS", "Track_Start", "Track_End">> } :
       LET base_vocab == CreateVocabulary(special_tokens, BaseVoc)
       IN  vo = [ pc |-> "ready", special_tokens |-> special_tokens,
                  base_vocab |-> base_vocab,
                  vocab |-> CreateVocabulary(special_tokens,
                               MMMCreateBaseVocabulary(base_vocab, special_tokens)),
                  added |-> 0 ]
  /\ ml = Idle /\ fifo = NoFifo /\ te = Idle /\ rt = Idle /\ sd = Idle
  /\ se = Idle /\ er = Idle /\ mm = Idle
  /\ ei = Idle /\ tk = Idle /\ pd = Idle /\ me = Idle
  /\ sp = Idle /\ nd = Idle /\ tg = Idle

VOAddToVocab ==
  /\ vo.pc = "ready" /\ vo.added < MaxAdded
  /\ \E token \in AddedTokens : vo' = MMMAddToVocab(vo, token)
  /\ UNCHANGED <<ml, fifo, te, rt, sd, se, er, mm, ei, tk, pd, me, sp, nd, tg>>

VONext == VOAddToVocab

SpecVocab == VOInit /\ [][VONext]_vars

-----------------------------------------------------------------------------
(* Properties of MMM.add_to_vocab *)

Delimiters == {"Track_Start", "Track_End"}

SameIds(s) ==
  \A k \in DOMAIN s.vocab :
    s.vocab[k] \notin Delimiters =>
      /\ InVocab(s.base_vocab, s.vocab[k])
      /\ TokenId(s.base_vocab, s.vocab[k]) = k - 1

\* C31: every token of the MMM vocabulary but the delimiters has the same id
\* in the vocabulary of the base tokenizer, and a call of add_to_vocab
\* changes the id of no token of either vocabulary.
C31_SameIdsAndIdsKept ==
  /\ [](vo.pc = "ready" => SameIds(vo))
  /\ [][ (vo.pc = "ready" /\ vo'.pc = "ready") =>
           /\ \A k \in DOMAIN vo.vocab :
                k \in DOMAIN vo'.vocab /\ vo'.vocab[k] = vo.vocab[k]
           /\ \A k \in DOMAIN vo.base_vocab :
                k \in DOMAIN vo'.base_vocab /\ vo'.base_vocab[k] = vo.base_vocab[k]
       ]_vars

\* a new token was added after a token of the vocabulary was added again
C31_Witness ==
  /\ vo.pc = "ready" /\ vo.added = MaxAdded
  /\ Len(vo.vocab) > Len(vo.special_tokens) + Len(BaseVoc)
  /\ Len(vo.vocab) < Len(vo.special_tokens) + Len(BaseVoc) + MaxAdded


-----------------------------------------------------------------------------
(* split_seq_in_subsequences and split_dataset_to_subsequences             *)
(*                                                                         *)
(* sp is a call of split_dataset_to_subsequences on one tokens file.  It   *)
(* holds the arguments (min_seq_len, max_seq_len, one_token_stream), the   *)
(* content of the file (tokens: its "ids" and one other field), the        *)
(* sequence under split_seq_in_subsequences (seq) with the variables of    *)
(* its loop (i, sub_seq), the track the sequence is of (track), the        *)
(* subsequences gathered (subseqs), and the files written (written: the    *)
(* index in the name of each file and the object dumped in it).            *)

\* length of the "ids" of a tokens file, and of max_seq_len
MaxSeqLen == 4

\* seq[i : i + max_seq_len]
SubSequence(seq, i, max_seq_len) == Slice(seq, i, i + max_seq_len)

\* line 209
LastSampleTooShort(seq, i, min_seq_len) == i >= Len(seq) - min_seq_len

\* the call split_seq_in_subsequences(seq, min_seq_len, max_seq_len), before
\* its loop
SplitCall(s, seq) == [s EXCEPT !.pc = "split", !.seq = seq, !.i = 0, !.sub_seq = <<>>]

\* lines 247-254: the sequence split first
FirstSplit(s) ==
  IF s.one_token_stream THEN SplitCall(s, s.tokens.ids)
  ELSE IF s.tokens.ids = <<>> THEN [s EXCEPT !.pc = "save"]
  ELSE SplitCall([s EXCEPT !.track = 1], s.tokens.ids[1])

\* the ids of a tokens file: n ids, in one sequence or in the sequences of
\* two tracks, the first of cut ids
FileIds(n, cut, one_token_stream) ==
  IF one_token_stream THEN [k \in 1 .. n |-> k]
  ELSE << [k \in 1 .. cut |-> k], [k \in 1 .. (n - cut) |-> cut + k] >>

SPInit ==
  /\ \E n \in 0 .. MaxSeqLen, max_seq_len \in 1 .. MaxSeqLen :
     \E min_seq_len \in 0 .. max_seq_len, cut \in 0 .. n :
     \E one_token_stream \in BOOLEAN :
       /\ one_token_stream => cut = 0
       /\ sp = FirstSplit([ pc |-> "call",
                            min_seq_len |-> min_seq_len, max_seq_len |-> max_seq_len,
                            one_token_stream |-> one_token_stream,
                            tokens |-> [ ids |-> FileIds(n, cut, one_token_stream),
                                         programs |-> <<0>> ],
                            seq |-> <<>>, i |-> 0, sub_seq |-> <<>>, track |-> 0,
                            subseqs |-> <<>>, written |-> <<>> ])
  /\ ml = Idle /\ fifo = NoFifo /\ te = Idle /\ rt = Idle /\ sd = Idle
  /\ se = Idle /\ er = Idle /\ mm = Idle
  /\ ei = Idle /\ tk = Idle /\ pd = Idle /\ me = Idle
  /\ vo = Idle /\ nd = Idle /\ tg = Idle

\* lines 208-212: an iteration of the loop that appends a subsequence
SPSplit ==
  /\ sp.pc = "split" /\ sp.i < Len(sp.seq)
  /\ ~LastSampleTooShort(sp.seq, sp.i, sp.min_seq_len)
  /\ LET sub == SubSequence(sp.seq, sp.i, sp.max_seq_len)
     IN  sp' = [sp EXCEPT !.sub_seq = Append(@, sub), !.i = @ + Len(sub)]
  /\ UNCHANGED <<ml, fifo, te, rt, sd, se, er, mm, ei, tk, pd, me, vo, nd, tg>>

\* lines 208-214: the end of the loop, or its break
SPReturn ==
  /\ sp.pc = "split"
  /\ sp.i >= Len(sp.seq) \/ LastSampleTooShort(sp.seq, sp.i, sp.min_seq_len)
  /\ sp' = [sp EXCEPT !.pc = "returned"]
  /\ UNCHANGED <<ml, fifo, te, rt, sd, se, er, mm, ei, tk, pd, me, vo, nd, tg>>

\* lines 248-254: the subsequences returned are gathered, and the next track
\* is split
SPGather ==
  /\ sp.pc = "returned"
  /\ LET s == [sp EXCEPT !.subseqs = @ \o sp.sub_seq]
     IN  sp' = IF ~sp.one_token_stream /\ sp.track < Len(sp.tokens.ids)
                 THEN SplitCall([s EXCEPT !.track = @ + 1], sp.tokens.ids[sp.track + 1])
                 ELSE [s EXCEPT !.pc = "save"]
  /\ UNCHANGED <<ml, fifo, te, rt, sd, se, er, mm, ei, tk, pd, me, vo, nd, tg>>

\* lines 257-262: new_tok is a copy of tokens with the subsequence as its
\* ids, and the object dumped is tokens
Dumped(tokens, new_tok) == tokens

\* lines 257-262: an iteration of the loop that saves the subsequences
SPSave ==
  /\ sp.pc = "save" /\ Len(sp.written) < Len(sp.subseqs)
  /\ LET i == Len(sp.written)
         new_tok == [sp.tokens EXCEPT !.ids = sp.subseqs[i + 1]]
     IN  sp' = [sp EXCEPT !.written =
                   Append(@, [i |-> i, object |-> Dumped(sp.tokens, new_tok)])]
  /\ UNCHANGED <<ml, fifo, te, rt, sd, se, er, mm, ei, tk, pd, me, vo, nd, tg>>

SPDone ==
  /\ sp.pc = "save" /\ Len(sp.written) = Len(sp.subseqs)
  /\ sp' = [sp EXCEPT !.pc = "done"]
  /\ UNCHANGED <<ml, fifo, te, rt, sd, se, er, mm, ei, tk, pd, me, vo, nd, tg>>

SPNext == SPSplit \/ SPReturn \/ SPGather \/ SPSave \/ SPDone

SpecSplit == SPInit /\ [][SPNext]_vars

-----------------------------------------------------------------------------
(* Properties of split_seq_in_subsequences and                             *)
(* split_dataset_to_subsequences                                           *)

\* C33 as stated: the subsequences returned have lengths from min_seq_len to
\* max_seq_len, they are the slices of the sequence one after the other from
\* its start, and what is left of the sequence after them is nothing or
\* shorter than min_seq_len.
C33_SubsequencesWithinLengths ==
  sp.pc = "returned" =>
    LET kept == Concatenation(sp.sub_seq)
    IN  /\ \A r \in DOMAIN sp.sub_seq :
             /\ sp.min_seq_len <= Len(sp.sub_seq[r])
             /\ Len(sp.sub_seq[r]) <= sp.max_seq_len
        /\ kept = SubSeq(sp.seq, 1, Len(kept))
        /\ Len(sp.seq) - Len(kept) = 0 \/ Len(sp.seq) - Len(kept) < sp.min_seq_len

\* C34 as stated: one file is written for each subsequence, and the file of
\* index i holds the subsequence of index i as its ids and the other
\* fields of the input.
C34_FileHoldsItsSubsequence ==
  sp.pc = "done" =>
    /\ Len(sp.written) = Len(sp.subseqs)
    /\ \A f \in DOMAIN sp.written :
         /\ sp.written[f].i = f - 1
         /\ sp.written[f].object.ids = sp.subseqs[f]
         /\ sp.written[f].object.programs = sp.tokens.programs
         /\ sp.min_seq_len <= Len(sp.subseqs[f])
         /\ Len(sp.subseqs[f]) <= sp.max_seq_len


-----------------------------------------------------------------------------
(* MIDILike._create_token_types_graph                                      *)
(*                                                                         *)
(* tg is a call of _create_token_types_graph: the flags of the             *)
(* configuration (config), the dictionary built so far (dic: a function    *)
(* from the types that are keys to their successors, each list as a set),  *)
(* the number of blocks of the method executed (block) and the exception   *)
(* raised, if any.  An assignment dic[key] = [...] is the operation Set, an *)
(* append or += on dic[key] is the operation Add, which raises KeyError     *)
(* when key is not in dic.                                                 *)

Flags ==
  { "use_programs", "program_changes", "use_pitch_intervals", "use_chords",
    "use_tempos", "use_time_signatures", "use_sustain_pedals",
    "sustain_pedal_duration", "use_pitch_bends", "use_rests" }

Set(key, succs) == [op |-> "set", key |-> key, succs |-> succs]

Add(key, succs) == [op |-> "add", key |-> key, succs |-> succs]

When(cond, ops) == IF cond THEN ops ELSE <<>>

Intervals == {"PitchIntervalTime", "PitchIntervalChord"}

FirstNoteTokenType_AlwaysProgram(c) == "Program"

\* lines 396-402
FirstNoteTokenType(c) ==
  IF c.use_programs /\ ~c.program_changes THEN "Program" ELSE "NoteOn"

\* lines 407-414, for one of the two types
PitchIntervalOps(c, token_type) ==
  <<Set(token_type, {"Velocity"})>>
    \o ( IF c.use_programs THEN <<Add("Program", {token_type})>>
         ELSE << Add("Velocity", {token_type}), Add("NoteOff", {token_type}),
                 Add("TimeShift", {token_type}) >> )

\* lines 394-417
NoteOps(c) ==
  LET first == FirstNoteTokenType(c)
  IN  <<Set("NoteOn", {"Velocity"})>>
        \o When(c.use_programs, <<Set("Program", {"NoteOn", "NoteOff"})>>)
        \o << Set("Velocity", {first, "TimeShift"}),
              Set("NoteOff", {"NoteOff", first, "TimeShift"}),
              Set("TimeShift", {"NoteOff", first, "TimeShift"}) >>
        \o When(c.use_pitch_intervals,
                PitchIntervalOps(c, "PitchIntervalTime")
                  \o PitchIntervalOps(c, "PitchIntervalChord"))
        \o When(c.program_changes,
                <<Add("Velocity", {"Program"}), Add("NoteOff", {"Program"})>>)

\* lines 419-426
ChordOps(c) ==
  When(c.use_chords,
       << Set("Chord", {FirstNoteTokenType(c)}),
          Add("TimeShift", {"Chord"}), Add("NoteOff", {"Chord"}) >>
         \o When(c.use_programs, <<Add("Program", {"Chord"})>>)
         \o When(c.use_pitch_intervals, <<Add("Chord", Intervals)>>))

\* lines 428-438 for Tempo, lines 440-452 for TimeSig
GlobalOps(c, type) ==
  << Add("TimeShift", {type}), Set(type, {FirstNoteTokenType(c), "TimeShift"}) >>
    \o When(~c.use_programs \/ c.program_changes, <<Add(type, {"NoteOff"})>>)
    \o When(c.use_chords, <<Add(type, {"Chord"})>>)
    \o When(c.use_rests, <<Add(type, {"Rest"})>>)
    \o When(type = "TimeSig" /\ c.use_tempos, <<Add(type, {"Tempo"})>>)
    \o When(c.use_pitch_intervals, <<Add(type, Intervals)>>)

TempoOps(c) == When(c.use_tempos, GlobalOps(c, "Tempo"))

TimeSigOps(c) == When(c.use_time_signatures, GlobalOps(c, "TimeSig"))

\* the tests of lines 457 and 459, 481, 486, 490, 494
PedalOffMode_Always(c) == TRUE

PedalOffMode(c) == ~c.sustain_pedal_duration

\* lines 454-495
PedalOps(c) ==
  LET first == FirstNoteTokenType(c)
      off == PedalOffMode(c)
  IN  When(c.use_sustain_pedals,
        << Add("TimeShift", {"Pedal"}), Add("NoteOff", {"Pedal"}) >>
          \o When(off, <<Add("NoteOff", {"PedalOff"})>>)
          \o ( IF c.sustain_pedal_duration
                 THEN << Set("Pedal", {"Duration"}),
                         Set("Duration", {first, "NoteOff", "TimeShift", "Pedal"}) >>
                        \o When(c.use_pitch_intervals, <<Add("Duration", Intervals)>>)
                 ELSE << Set("PedalOff",
                             {"Pedal", "PedalOff", first, "NoteOff", "TimeShift"}),
                         Set("Pedal", {"Pedal", first, "NoteOff", "TimeShift"}),
                         Add("TimeShift", {"PedalOff"}) >> )
          \o When(c.use_chords,
                  <<Add("Pedal", {"Chord"})>>
                    \o When(off, << Add("PedalOff", {"Chord"}),
                                    Add("Chord", {"PedalOff"}) >>))
          \o When(c.use_rests,
                  <<Add("Pedal", {"Rest"})>>
                    \o When(off, <<Add("PedalOff", {"Rest"})>>))
          \o When(c.use_tempos,
                  <<Add("Tempo", {"Pedal"})>>
                    \o When(off, <<Add("Tempo", {"PedalOff"})>>))
          \o When(c.use_time_signatures,
                  <<Add("TimeSig", {"Pedal"})>>
                    \o When(off, <<Add("TimeSig", {"PedalOff"})>>)))

\* lines 497-519
PitchBendOps(c) ==
  When(c.use_pitch_bends,
    <<Set("PitchBend", {FirstNoteTokenType(c), "NoteOff", "TimeShift"})>>
      \o ( IF c.use_programs /\ ~c.program_changes
             THEN <<Add("Program", {"PitchBend"})>>
             ELSE << Add("TimeShift", {"PitchBend"}), Add("NoteOff", {"PitchBend"}) >>
                    \o When(c.use_tempos, <<Add("Tempo", {"PitchBend"})>>)
                    \o When(c.use_time_signatures, <<Add("TimeSig", {"PitchBend"})>>)
                    \o When(c.use_sustain_pedals,
                            <<Add("Pedal", {"PitchBend"})>>
                              \o ( IF c.sustain_pedal_duration
                                     THEN <<Add("Duration", {"PitchBend"})>>
                                     ELSE <<Add("PedalOff", {"PitchBend"})>> )) )
      \o When(c.use_chords, <<Add("PitchBend", {"Chord"})>>)
      \o When(c.use_rests, <<Add("PitchBend", {"Rest"})>>))

\* lines 521-542
RestOps(c) ==
  IF c.use_rests
    THEN << Set("Rest", {"Rest", FirstNoteTokenType(c), "TimeShift"}),
            Add("NoteOff", {"Rest"}) >>
           \o When(c.use_chords, <<Add("Rest", {"Chord"})>>)
           \o When(c.use_tempos, <<Add("Rest", {"Tempo"})>>)
           \o When(c.use_time_signatures, <<Add("Rest", {"TimeSig"})>>)
           \o When(c.use_sustain_pedals,
                   <<Add("Rest", {"Pedal"})>>
                     \o ( IF c.sustain_pedal_duration
                            THEN <<Add("Duration", {"Rest"})>>
                            ELSE << Add("Rest", {"PedalOff"}),
                                    Add("PedalOff", {"Rest"}) >> ))
           \o When(c.use_pitch_bends, <<Add("Rest", {"PitchBend"})>>)
           \o When(c.use_pitch_intervals, <<Add("Rest", Intervals)>>)
    ELSE <<Add("TimeShift", {"TimeShift"})>>

\* lines 545-554
ProgramChangeTypes ==
  << "TimeShift", "Rest", "PitchBend", "Pedal", "PedalOff", "Tempo", "TimeSig", "Chord" >>

\* one operation on the dictionary
ApplyOp(d, o) ==
  IF d.raised # "" THEN d
  ELSE IF o.op = "set" THEN [d EXCEPT !.dic = (o.key :> o.succs) @@ @]
  ELSE IF o.key \notin DOMAIN d.dic THEN Raise(d, "KeyError")
  ELSE [d EXCEPT !.dic[o.key] = @ \cup o.succs]

RECURSIVE ApplyOps(_, _)
ApplyOps(d, ops) ==
  IF ops = <<>> THEN d ELSE ApplyOps(ApplyOp(d, Head(ops)), Tail(ops))

\* lines 544-557: the loop over the types from the k-th on
RECURSIVE ProgramChangeLoop(_, _)
ProgramChangeLoop(d, k) ==
  IF k > Len(ProgramChangeTypes) THEN d
  ELSE LET token_type == ProgramChangeTypes[k]
       IN  ProgramChangeLoop(
             IF token_type \in DOMAIN d.dic
               THEN ApplyOps(d, << Add("Program", {token_type}),
                                   Add(token_type, {"Program"}) >>)
               ELSE d,
             k + 1)

\* the blocks of the method, in their order
Blocks == << "notes", "chords", "tempos", "time_signatures", "pedals",
             "pitch_bends", "rests", "program_changes" >>

CreateTokenTypesGraphBlock(d, name) ==
  LET c == d.config
  IN  CASE name = "notes" -> ApplyOps(d, NoteOps(c))
        [] name = "chords" -> ApplyOps(d, ChordOps(c))
        [] name = "tempos" -> ApplyOps(d, TempoOps(c))
        [] name = "time_signatures" -> ApplyOps(d, TimeSigOps(c))
        [] name = "pedals" -> ApplyOps(d, PedalOps(c))
        [] name = "pitch_bends" -> ApplyOps(d, PitchBendOps(c))
        [] name = "rests" -> ApplyOps(d, RestOps(c))
        [] name = "program_changes" ->
             IF c.program_changes THEN ProgramChangeLoop(d, 1) ELSE d

TGInit ==
  /\ \E c \in [Flags -> BOOLEAN] :
       tg = [pc |-> "build", config |-> c, dic |-> <<>>, block |-> 0, raised |-> ""]
  /\ ml = Idle /\ fifo = NoFifo /\ te = Idle /\ rt = Idle /\ sd = Idle
  /\ se = Idle /\ er = Idle /\ mm = Idle
  /\ ei = Idle /\ tk = Idle /\ pd = Idle /\ me = Idle
  /\ vo = Idle /\ sp = Idle /\ nd = Idle

\* the next block of the method
TGBlock ==
  /\ tg.pc = "build" /\ tg.block < Len(Blocks)
  /\ LET d == CreateTokenTypesGraphBlock(tg, Blocks[tg.block + 1])
     IN  tg' = IF d.raised # "" THEN [d EXCEPT !.pc = "raised"]
               ELSE [d EXCEPT !.block = @ + 1]
  /\ UNCHANGED <<ml, fifo, te, rt, sd, se, er, mm, ei, tk, pd, me, vo, sp, nd>>

\* line 559
TGReturn ==
  /\ tg.pc = "build" /\ tg.block = Len(Blocks)
  /\ tg' = [tg EXCEPT !.pc = "done"]
  /\ UNCHANGED <<ml, fifo, te, rt, sd, se, er, mm, ei, tk, pd, me, vo, sp, nd>>

TGNext == TGBlock \/ TGReturn

SpecGraph == TGInit /\ [][TGNext]_vars

-----------------------------------------------------------------------------
(* Properties of MIDILike._create_token_types_graph *)

\* the type is a key of the dictionary or a successor of one of its keys
Occurs(dic, type) ==
  type \in DOMAIN dic \/ \E key \in DOMAIN dic : type \in dic[key]

\* C36: in the graph returned, PedalOff occurs exactly when sustain pedals
\* are used without pedal durations, and Duration exactly when they are used
\* with pedal durations.
C36_PedalOffAndDurationByPedalMode ==
  tg.pc = "done" =>
    /\ Occurs(tg.dic, "PedalOff")
         <=> (tg.config.use_sustain_pedals /\ ~tg.config.sustain_pedal_duration)
    /\ Occurs(tg.dic, "Duration")
         <=> (tg.config.use_sustain_pedals /\ tg.config.sustain_pedal_duration)

\* a graph with PedalOff was returned for a configuration with chords, rests,
\* tempos, time signatures, pitch bends and program changes
C36_Witness ==
  /\ tg.pc = "done" /\ Occurs(tg.dic, "PedalOff")
  /\ tg.config.use_chords /\ tg.config.use_rests /\ tg.config.use_tempos
  /\ tg.config.use_time_signatures /\ tg.config.use_pitch_bends
  /\ tg.config.program_changes

\* C37: when program_changes implies use_programs the method raises nothing,
\* and every successor in the dictionary, at every point of the method and
\* in the graph returned, is a key of the graph returned.
C37_GraphBuiltAndClosed ==
  (tg.pc # "idle" /\ (tg.config.program_changes => tg.config.use_programs)) =>
    /\ tg.raised = "" /\ tg.pc # "raised"
    /\ tg.pc = "done" =>
         \A key \in DOMAIN tg.dic : tg.dic[key] \subseteq DOMAIN tg.dic

\* a graph was returned for a configuration with every flag on but the pedal
\* durations
C37_Witness ==
  /\ tg.pc = "done"
  /\ \A f \in Flags \ {"sustain_pedal_duration"} : tg.config[f]
  /\ ~tg.config.sustain_pedal_duration
  /\ "Program" \in tg.dic["PedalOff"]


-----------------------------------------------------------------------------
(* split_midi_per_note_density                                             *)
(*                                                                         *)
(* nd is a call of split_midi_per_note_density.  It holds the arguments    *)
(* (max_seq_len, minimize_padding, min_seq_len after its default), the     *)
(* estimated number of tokens of each bar (num_tokens_per_bar), the ticks  *)
(* of the bars (bar_ticks), the variables of the loop (bi,                 *)
(* num_tokens_current_chunk, ticks_split) and what the call gave           *)
(* (returned, raised).  get_bars_ticks gives the tick at which each bar    *)
(* begins; whether it also gives the tick at which the last bar ends is    *)
(* left open (with_end).                                                   *)

\* bars of a file
MaxBars == 3

\* estimated tokens of one bar
MaxBarTokens == 4

\* ticks of one bar (4/4)
TicksPerBar == 4 * config.time_division

\* get_bars_ticks(midi)
GetBarsTicks(num_bars, with_end) ==
  [k \in 1 .. (IF with_end THEN num_bars + 1 ELSE num_bars) |-> (k - 1) * TicksPerBar]

\* lines 134-135; min_seq_len is None or <<the number given>>
DefaultMinSeqLen(min_seq_len, max_seq_len) ==
  IF min_seq_len = None THEN max_seq_len \div 2 ELSE min_seq_len[1]

\* lines 150-153, with diff_num_tokens < tpb / 2 written on integers
CutAtBeginning(s, tpb, diff_num_tokens) ==
  /\ ~s.minimize_padding
  /\ \/ 2 * diff_num_tokens < tpb
     \/ (s.bi + 1 = Len(s.bar_ticks) /\ diff_num_tokens < s.min_seq_len)

\* ticks_split.append(bar_ticks[index]), index from 0
AppendCut(s, index) ==
  IF index + 1 \in DOMAIN s.bar_ticks
    THEN [s EXCEPT !.ticks_split = Append(@, s.bar_ticks[index + 1])]
    ELSE Raise(s, "IndexError")

\* one iteration of the loop of lines 144-161, on bar bi
ScanBar(s) ==
  LET tpb == s.num_tokens_per_bar[s.bi + 1]
      num_tokens_next == s.num_tokens_current_chunk + tpb
      diff_num_tokens == num_tokens_next - s.max_seq_len
  IN  IF num_tokens_next > s.max_seq_len
        THEN IF CutAtBeginning(s, tpb, diff_num_tokens)
               THEN [AppendCut(s, s.bi) EXCEPT !.num_tokens_current_chunk = tpb]
               ELSE [AppendCut(s, s.bi + 1) EXCEPT !.num_tokens_current_chunk = 0]
        ELSE [s EXCEPT !.num_tokens_current_chunk = num_tokens_next]

\* split_midi_per_ticks(midi, ticks_split): the spans of ticks between one
\* cut and the next
ChunksBetweenCuts(ticks) ==
  [k \in 1 .. (Len(ticks) - 1) |-> <<ticks[k], ticks[k + 1]>>]

NDInit ==
  /\ \E num_bars \in 0 .. MaxBars :
       \E num_tokens_per_bar \in [1 .. num_bars -> 0 .. MaxBarTokens] :
         \E max_seq_len \in 1 .. MaxSeqLen :
           \E min_seq_len \in {None} \cup { <<m>> : m \in 0 .. max_seq_len } :
             \E minimize_padding \in BOOLEAN : \E with_end \in BOOLEAN :
               nd = [ pc |-> "loop", max_seq_len |-> max_seq_len,
                      minimize_padding |-> minimize_padding,
                      min_seq_len |-> DefaultMinSeqLen(min_seq_len, max_seq_len),
                      num_tokens_per_bar |-> num_tokens_per_bar,
                      bar_ticks |-> GetBarsTicks(num_bars, with_end),
                      bi |-> 0, num_tokens_current_chunk |-> 0,
                      ticks_split |-> <<>>, returned |-> None, raised |-> "" ]
  /\ ml = Idle /\ fifo = NoFifo /\ te = Idle /\ rt = Idle /\ sd = Idle
  /\ se = Idle /\ er = Idle /\ mm = Idle
  /\ ei = Idle /\ tk = Idle /\ pd = Idle /\ me = Idle
  /\ vo = Idle /\ sp = Idle /\ tg = Idle

NDBar ==
  /\ nd.pc = "loop" /\ nd.bi < Len(nd.num_tokens_per_bar)
  /\ LET s == ScanBar(nd)
     IN  nd' = IF s.raised # "" THEN [s EXCEPT !.pc = "raised"]
               ELSE [s EXCEPT !.bi = @ + 1]
  /\ UNCHANGED <<ml, fifo, te, rt, sd, se, er, mm, ei, tk, pd, me, vo, sp, tg>>

NDReturn ==
  /\ nd.pc = "loop" /\ nd.bi >= Len(nd.num_tokens_per_bar)
  /\ nd' = [nd EXCEPT !.pc = "done", !.returned = ChunksBetweenCuts(nd.ticks_split)]
  /\ UNCHANGED <<ml, fifo, te, rt, sd, se, er, mm, ei, tk, pd, me, vo, sp, tg>>

NDNext == NDBar \/ NDReturn

SpecDensity == NDInit /\ [][NDNext]_vars

-----------------------------------------------------------------------------
(* Properties of split_midi_per_note_density *)

StrictlyIncreasing(ticks) ==
  \A k \in 1 .. (Len(ticks) - 1) : ticks[k] < ticks[k + 1]

\* C40 as stated: whatever the estimated tokens of the bars and max_seq_len,
\* the cut ticks of split_midi_per_note_density are strictly increasing (no
\* bar boundary is cut twice and no cut comes before an earlier one), so that
\* no chunk between two cuts is empty.
C40_CutTicksStrictlyIncreasing ==
  nd.pc # "idle" =>
    /\ StrictlyIncreasing(nd.ticks_split)
    /\ nd.pc = "done" =>
         \A c \in DOMAIN nd.returned : nd.returned[c][1] < nd.returned[c][2]

=============================================================================
